---- MODULE Spec2Model ----
(***************************************************************************)
(* Model of the NFS-System manager: the bounded job queue and worker pool  *)
(* of src/src/thread_pool.c, driven by the producer loop of                *)
(* start_directory_sync (src/src/nfs_manager_logic.c).                     *)
(*                                                                         *)
(* Every queue operation runs under pool->queue_mutex, so one action is    *)
(* one critical section: from pthread_mutex_lock (or the re-acquisition    *)
(* inside pthread_cond_wait) to the next pthread_mutex_unlock or           *)
(* pthread_cond_wait.  A thread blocked in pthread_cond_wait has pc        *)
(* "waiting"; a signalled thread has pc "woken" until it gets the mutex    *)
(* back and re-tests its loop condition.  POSIX allows spurious wakeups,   *)
(* which SpuriousWake models.                                              *)
(*                                                                         *)
(* Four specifications share the module: Spec (and FairSpec) for the       *)
(* pool, XferSpec for sync_single_file and the two file-servers of         *)
(* src/src/nfs_client_logic.c, RegSpec for the registry of sync pairs and  *)
(* handle_add_command, AddSpec (and AddFairSpec) for one add command from  *)
(* the LIST reply to the jobs in a one-slot pool.                          *)
(***************************************************************************)
EXTENDS Integers, Sequences, FiniteSets, TLC

\* Bounds of the model: the pool's capacity (create_thread_pool's
\* buffer_size argument) and the number of jobs ever created.
buffer_size == 2
NumJobs == 4
\* Bound of the model: the longest file transferred.
MaxFileLen == 2
\* Bounds of the model: the calls made on the registry, and the files a
\* source directory lists.
NumOps == 3
NumFiles == 2
\* Bound of the model: the longest text handed to parse_directory_spec.
MaxSpecLen == 5

\* Sizes of the buffers a directory specification is copied into.
MAX_PATH == 1024
MAX_HOST_SIZE == 256

\* The worker threads create_thread_pool starts, and the threads that run
\* start_directory_sync.
Workers == {1, 2}
Producers == {1, 2}

\* The sync_single_file calls a worker makes one after another on the same
\* pair of file-servers.
SyncCalls == {1, 2}

NULL == 0
Jobs == 1..NumJobs

VARIABLES
    job_queue_head,     \* pool->job_queue_head (a job or NULL)
    job_queue_tail,     \* pool->job_queue_tail (a job or NULL)
    queue_size,         \* pool->queue_size
    shutdown,           \* pool->shutdown
    next,               \* job->next of every job
    wpc,                \* position of every worker thread
    wjob,               \* the job a worker holds (local variable job)
    ppc,                \* position of every producer thread
    pjob,               \* the job a producer holds
    pblocked,           \* the producer's current enqueue call has waited
    dpc,                \* position of destroy_thread_pool
    created,            \* number of jobs create_sync_job has returned
    freed,              \* how many times free_sync_job ran on each job
    freedBy,            \* who freed each job last
    executed,           \* how many times sync_single_file ran on each job
    enqOrder,           \* jobs in the order their enqueue succeeded
    deqSeq,             \* <<worker, job>> in the order dequeues returned
    queuedAtShutdown,   \* jobs linked in the queue when shutdown was set
    heldAtShutdown,     \* <<worker, job>> in flight when shutdown was set
    waitersAtShutdown,  \* threads in pthread_cond_wait when shutdown was set
    unreachable,        \* jobs whose sync_single_file call returns -1
    error_count,        \* error_count of the sync_info_t the jobs come from
    \* one sync_single_file call and the two file-servers it talks to
    srcFile,            \* the file's bytes on the source file-server
    srcAlive,           \* the source connection has not ended
    srcStream,          \* bytes sent by the source, not yet read
    tgtStream,          \* bytes sent to the target, not yet read
    tgtOpen,            \* the target connection is open at the sender
    tgtFile,            \* the file's bytes on the target file-server
    current_fd,         \* handle_push_command's static descriptor is open
    tpc,                \* position of the target's handle_client_connection
    chunk_left,         \* chunk_size - total_received in handle_push_command
    mpc,                \* position of sync_single_file
    file_size,          \* sync_single_file's file_size
    total_transferred,  \* sync_single_file's total_transferred
    sync_result,        \* what sync_single_file returned
    spc,                \* position of the source's handle_pull_command
    pull_fd,            \* handle_pull_command's open and fstat succeeded
    pull_buf,           \* buffer + bytes_sent .. buffer + bytes_read
    srcSent,            \* every byte handle_pull_command has sent
    tgtSent,            \* every byte sync_single_file has sent to the target
    tgtBroken,          \* the target connection has failed
    sendFault,          \* a send to the target wrote less than asked
    cmdSawPayload,      \* the command parser was handed file data
    conn,               \* connections the target file-server has accepted
    fdConn,             \* the connection whose open frame set current_fd
    openAtAccept,       \* current_fd was open when the last accept returned
    chunk_size,         \* handle_push_command's chunk_size, last chunk call
    total_received,     \* handle_push_command's total_received
    consumed,           \* bytes chunk calls wrote since the last open
    log,                \* log lines of the current sync_single_file call
    fds,                \* sync_single_file's source_fd and target_fd
    xfers,              \* sync_single_file calls started
    \* the registry of sync pairs and the calls made on it
    sync_store,         \* the entries linked from store->head, head first
    store_count,        \* store->count
    rpc,                \* position of every calling thread
    rarg,               \* the key and target of a call in progress
    info_ptr,           \* deactivate_sync_info's local info (an entry id)
    next_info,          \* entries create_sync_info has allocated
    freed_info,         \* entries free_sync_info has freed
    store_uaf,          \* an entry was written after it was freed
    enq,                \* jobs start_directory_sync enqueued, per source key
    ops,                \* calls started
    last,               \* the call that returned last
    \* one pool's configuration, the source directory and its LIST reply
    capacity,           \* pool->buffer_size
    dir_exists,         \* opendir succeeds on the source directory
    dir_entries,        \* the directory's entries in readdir order
    lpc,                \* position of the source's handle_list_command
    dir_pos,            \* entries readdir has returned
    listStream,         \* bytes of the LIST reply sent, not yet read
    listSent,           \* every byte of the LIST reply sent
    list_buf,           \* start_directory_sync's buffer after its recv
    lines,              \* the tokens strtok has yet to return
    jobInfo,            \* the fields create_sync_job copies into each job
    \* one call of parse_directory_spec or parse_config_line
    parse,              \* its argument, and what it returned and stored
    cpc                 \* create_thread_pool's arguments and position

poolVars == <<job_queue_head, job_queue_tail, queue_size, shutdown, next>>
threadVars == <<wpc, wjob, ppc, pjob, pblocked, dpc>>
ghostVars == <<created, freed, freedBy, executed, enqOrder, deqSeq,
               queuedAtShutdown, heldAtShutdown, waitersAtShutdown>>
ghostNoDeq == <<created, freed, freedBy, executed, enqOrder,
                    queuedAtShutdown, heldAtShutdown, waitersAtShutdown>>
pairVars == <<unreachable, error_count>>
poolAll == <<poolVars, threadVars, ghostVars, pairVars>>
srcVars == <<spc, pull_fd, pull_buf, srcSent>>
linkVars == <<tgtSent, tgtBroken, sendFault>>
connVars == <<cmdSawPayload, conn, fdConn, openAtAccept>>
pushVars == <<chunk_size, total_received, consumed>>
xferVars == <<srcFile, srcAlive, srcStream, tgtStream, tgtOpen, tgtFile,
              current_fd, tpc, chunk_left, mpc, file_size,
              total_transferred, sync_result, srcVars, linkVars, connVars,
              pushVars, log, fds, xfers>>
regVars == <<sync_store, store_count, rpc, rarg, info_ptr, next_info,
             freed_info, store_uaf, enq, ops, last>>
listVars == <<dir_exists, dir_entries, lpc, dir_pos, listStream, listSent>>
addVars == <<capacity, listVars, list_buf, lines, jobInfo>>
parseVars == <<parse>>
createVars == <<cpc>>
vars == <<poolVars, threadVars, ghostVars, pairVars, xferVars, regVars,
          addVars, parseVars, createVars>>

(***************************************************************************)
(* The linked structure reachable from head.                               *)
(***************************************************************************)
RECURSIVE ChainFrom(_, _, _)
ChainFrom(nx, j, fuel) ==
    IF j = NULL \/ fuel = 0 THEN <<>>
    ELSE <<j>> \o ChainFrom(nx, nx[j], fuel - 1)

QueueChain == ChainFrom(next, job_queue_head, NumJobs)
QueueJobs == {QueueChain[i] : i \in 1..Len(QueueChain)}

(***************************************************************************)
(* create_thread_pool: empty queue, flag clear, thread_count workers       *)
(* started (a worker beyond thread_count does not exist).                  *)
(***************************************************************************)
CreateThreadPool(thread_count, size) ==
    /\ capacity = size
    /\ job_queue_head = NULL
    /\ job_queue_tail = NULL
    /\ queue_size = 0
    /\ shutdown = FALSE
    /\ next = [j \in Jobs |-> NULL]
    /\ wpc = [w \in Workers |-> IF w <= thread_count THEN "dequeue"
                                 ELSE "none"]
    /\ wjob = [w \in Workers |-> NULL]
    /\ ppc = [p \in Producers |-> "idle"]
    /\ pjob = [p \in Producers |-> NULL]
    /\ pblocked = [p \in Producers |-> FALSE]
    /\ dpc = "none"
    /\ cpc = [at |-> "pool", n |-> thread_count, i |-> thread_count, j |-> 0]
    /\ created = 0
    /\ freed = [j \in Jobs |-> 0]
    /\ freedBy = [j \in Jobs |-> <<"none", 0>>]
    /\ executed = [j \in Jobs |-> 0]
    /\ enqOrder = <<>>
    /\ deqSeq = <<>>
    /\ queuedAtShutdown = {}
    /\ heldAtShutdown = {}
    /\ waitersAtShutdown = {}

\* the pool nfs_manager creates: every worker of Workers, buffer_size slots
PoolInit == CreateThreadPool(Cardinality(Workers), buffer_size)

\* the jobs' endpoints: the jobs of odd number, or those of even number,
\* name a file-server that cannot be reached; create_sync_info has set the
\* pair's error_count to 0
JobsInit ==
    /\ unreachable \in {{j \in Jobs : j % 2 = 1}, {j \in Jobs : j % 2 = 0}}
    /\ error_count = 0

\* no pool is modelled: no job, no pair
PairIdle ==
    /\ unreachable = {}
    /\ error_count = 0

\* sync_single_file's two descriptors before connect_to_server
NoFds == [source |-> "none", target |-> "none"]

\* no transfer is modelled next to the pool: a finished call on an empty file
XferIdle ==
    /\ srcFile = <<>>
    /\ srcAlive = TRUE
    /\ srcStream = <<>>
    /\ tgtStream = <<>>
    /\ tgtOpen = FALSE
    /\ tgtFile = <<>>
    /\ current_fd = FALSE
    /\ tpc = "closed"
    /\ chunk_left = 0
    /\ mpc = "done"
    /\ file_size = 0
    /\ total_transferred = 0
    /\ sync_result = 0
    /\ spc = "done"
    /\ pull_fd = FALSE
    /\ pull_buf = <<>>
    /\ srcSent = <<>>
    /\ tgtSent = <<>>
    /\ tgtBroken = FALSE
    /\ sendFault = FALSE
    /\ cmdSawPayload = FALSE
    /\ conn = 0
    /\ fdConn = 0
    /\ openAtAccept = FALSE
    /\ chunk_size = 0
    /\ total_received = 0
    /\ consumed = <<>>
    /\ log = {}
    /\ fds = [source |-> "closed", target |-> "closed"]
    /\ xfers = 2

\* the threads that call the registry, and the source keys and targets
\* their calls name
Callers == {1, 2}
Keys == {<<"h1", 1, "/a">>, <<"h1", 2, "/a">>}
Targets == {<<"t1", 1, "/x">>, <<"t2", 1, "/y">>}
NoCall == [seq |-> 0, caller |-> 0, op |-> "none", key |-> <<>>,
           target |-> <<>>, ret |-> 0]

\* a job create_sync_job has not filled in
NoJob == [key |-> <<>>, target |-> <<>>, filename |-> <<>>]

\* no source directory is listed
ListIdle ==
    /\ dir_exists = FALSE
    /\ dir_entries = <<>>
    /\ lpc = "idle"
    /\ dir_pos = 0
    /\ listStream = <<>>
    /\ listSent = <<>>
    /\ list_buf = <<>>
    /\ lines = <<>>
    /\ jobInfo = <<>>

\* no parse call is modelled
NoParse == [pc |-> "none"]
ParseIdle == parse = NoParse

\* create_sync_store, no call made yet
RegInit ==
    /\ sync_store = <<>>
    /\ store_count = 0
    /\ rpc = [c \in Callers |-> "idle"]
    /\ rarg = [c \in Callers |-> <<>>]
    /\ info_ptr = [c \in Callers |-> 0]
    /\ next_info = 0
    /\ freed_info = {}
    /\ store_uaf = FALSE
    /\ enq = [k \in Keys |-> 0]
    /\ ops = 0
    /\ last = NoCall

Init == PoolInit /\ JobsInit /\ XferIdle /\ RegInit /\ ListIdle /\ ParseIdle

(***************************************************************************)
(* Condition variables.                                                    *)
(***************************************************************************)
\* mutant of BroadcastNotEmpty: pthread_cond_signal, one waiting worker
SignalNotEmptyOnce(pcs) ==
    IF \E w \in Workers : pcs[w] = "waiting"
    THEN [pcs EXCEPT ![CHOOSE w \in Workers : pcs[w] = "waiting"] = "woken"]
    ELSE pcs

\* pthread_cond_broadcast(&pool->queue_not_empty): every waiting worker.
BroadcastNotEmpty(pcs) ==
    [w \in Workers |-> IF pcs[w] = "waiting" THEN "woken" ELSE pcs[w]]

\* pthread_cond_broadcast(&pool->queue_not_full): every waiting producer.
BroadcastNotFull(pcs) ==
    [p \in Producers |-> IF pcs[p] = "waiting" THEN "woken" ELSE pcs[p]]

\* mutant of SignalOne: the signal wakes no waiter
SignalLost(pcs, threads) == {pcs}

\* pthread_cond_signal: the pc maps it may leave (one waiter woken, if any).
SignalOne(pcs, threads) ==
    IF \E t \in threads : pcs[t] = "waiting"
    THEN {[pcs EXCEPT ![t] = "woken"] : t \in {u \in threads : pcs[u] = "waiting"}}
    ELSE {pcs}

(***************************************************************************)
(* enqueue_sync_job                                                        *)
(***************************************************************************)
\* mutant of QueueFull: the capacity test off by one
QueueFullOffByOne == queue_size > capacity

\* the loop condition's first conjunct, queue_size >= buffer_size
QueueFull == queue_size >= capacity

\* mutant of ShutdownAfterWait: the flag is not tested again after the wait
ShutdownAfterWaitIgnored == FALSE

\* the test of the flag after the wait loop
ShutdownAfterWait == shutdown

\* mutant of EnqueueAppend: the job is linked in front of head
EnqueueAppendAtHead(p, j) ==
    /\ next' = [next EXCEPT ![j] = job_queue_head]
    /\ job_queue_head' = j
    /\ job_queue_tail' = IF job_queue_tail = NULL THEN j ELSE job_queue_tail
    /\ queue_size' = queue_size + 1
    /\ shutdown' = shutdown
    /\ wpc' \in SignalOne(wpc, Workers)
    /\ enqOrder' = Append(enqOrder, j)
    /\ ppc' = [ppc EXCEPT ![p] = "idle"]
    /\ pjob' = [pjob EXCEPT ![p] = NULL]
    /\ pblocked' = [pblocked EXCEPT ![p] = FALSE]

\* the append at the tail, queue_size++ and the signal on queue_not_empty
EnqueueAppend(p, j) ==
    /\ IF job_queue_tail # NULL
       THEN /\ next' = [next EXCEPT ![job_queue_tail] = j]
            /\ job_queue_head' = job_queue_head
       ELSE /\ job_queue_head' = j
            /\ next' = next
    /\ job_queue_tail' = j
    /\ queue_size' = queue_size + 1
    /\ shutdown' = shutdown
    /\ wpc' \in SignalOne(wpc, Workers)
    /\ enqOrder' = Append(enqOrder, j)
    /\ ppc' = [ppc EXCEPT ![p] = "idle"]
    /\ pjob' = [pjob EXCEPT ![p] = NULL]
    /\ pblocked' = [pblocked EXCEPT ![p] = FALSE]

\* the wait loop and what follows it, run with the mutex held
EnqueueLoop(p, j) ==
    IF QueueFull /\ ~shutdown
    THEN /\ ppc' = [ppc EXCEPT ![p] = "waiting"]
         /\ pjob' = [pjob EXCEPT ![p] = j]
         /\ pblocked' = [pblocked EXCEPT ![p] = TRUE]
         /\ UNCHANGED <<poolVars, wpc, enqOrder>>
    ELSE IF ShutdownAfterWait
    THEN /\ ppc' = [ppc EXCEPT ![p] = "failed"]
         /\ pjob' = [pjob EXCEPT ![p] = j]
         /\ UNCHANGED <<poolVars, wpc, pblocked, enqOrder>>
    ELSE EnqueueAppend(p, j)

\* start_directory_sync's loop body: create_sync_job, then enqueue_sync_job
\* up to its first unlock or wait
CreateAndEnqueue(p) ==
    /\ dpc = "none"
    /\ ppc[p] = "idle"
    /\ created < NumJobs
    /\ LET j == created + 1 IN
       /\ created' = j
       /\ IF shutdown
          THEN /\ ppc' = [ppc EXCEPT ![p] = "failed"]
               /\ pjob' = [pjob EXCEPT ![p] = j]
               /\ UNCHANGED <<poolVars, wpc, pblocked, enqOrder>>
          ELSE EnqueueLoop(p, j)
    /\ UNCHANGED <<xferVars, pairVars, regVars, addVars, parseVars, createVars>>
    /\ UNCHANGED <<wjob, dpc, freed, freedBy, executed, deqSeq,
                   queuedAtShutdown, heldAtShutdown, waitersAtShutdown>>

\* pthread_cond_wait returns in enqueue_sync_job: the loop is tested again
EnqueueWake(p) ==
    /\ ppc[p] = "woken"
    /\ EnqueueLoop(p, pjob[p])
    /\ UNCHANGED <<xferVars, pairVars, regVars, addVars, parseVars, createVars>>
    /\ UNCHANGED <<wjob, dpc, created, freed, freedBy, executed, deqSeq,
                   queuedAtShutdown, heldAtShutdown, waitersAtShutdown>>

\* mutant of ProducerFree: the rejected job is dropped without free_sync_job
ProducerFreeLeak(p) ==
    /\ ppc[p] = "failed"
    /\ ppc' = [ppc EXCEPT ![p] = "idle"]
    /\ pjob' = [pjob EXCEPT ![p] = NULL]
    /\ pblocked' = [pblocked EXCEPT ![p] = FALSE]
    /\ UNCHANGED <<xferVars, pairVars, regVars, addVars, parseVars, createVars>>
    /\ UNCHANGED <<poolVars, wpc, wjob, dpc, created, freed, freedBy,
                   executed, enqOrder, deqSeq, queuedAtShutdown,
                   heldAtShutdown, waitersAtShutdown>>

\* start_directory_sync, enqueue failed: free_sync_job(job)
ProducerFree(p) ==
    /\ ppc[p] = "failed"
    /\ freed' = [freed EXCEPT ![pjob[p]] = @ + 1]
    /\ freedBy' = [freedBy EXCEPT ![pjob[p]] = <<"producer", p>>]
    /\ ppc' = [ppc EXCEPT ![p] = "idle"]
    /\ pjob' = [pjob EXCEPT ![p] = NULL]
    /\ pblocked' = [pblocked EXCEPT ![p] = FALSE]
    /\ UNCHANGED <<xferVars, pairVars, regVars, addVars, parseVars, createVars>>
    /\ UNCHANGED <<poolVars, wpc, wjob, dpc, created, executed, enqOrder,
                   deqSeq, queuedAtShutdown, heldAtShutdown, waitersAtShutdown>>

(***************************************************************************)
(* dequeue_sync_job and worker_thread                                      *)
(***************************************************************************)
\* the loop condition, queue_size == 0 && !shutdown
DequeueMustWait == queue_size = 0 /\ ~shutdown

\* mutant of DequeueClosed: closed as soon as the flag is set
DequeueClosedOnFlag == shutdown

\* the test after the loop, shutdown && queue_size == 0
DequeueClosed == shutdown /\ queue_size = 0

\* mutant of DequeueRemove: tail is not reset when the last job leaves
DequeueRemoveKeepTail(w) ==
    LET job == job_queue_head IN
    IF job # NULL
    THEN /\ job_queue_head' = next[job]
         /\ job_queue_tail' = job_queue_tail
         /\ queue_size' = queue_size - 1
         /\ shutdown' = shutdown
         /\ next' = [next EXCEPT ![job] = NULL]
         /\ ppc' \in SignalOne(ppc, Producers)
         /\ wpc' = [wpc EXCEPT ![w] = "exec"]
         /\ wjob' = [wjob EXCEPT ![w] = job]
         /\ deqSeq' = Append(deqSeq, <<w, job>>)
    ELSE /\ wpc' = [wpc EXCEPT ![w] = "exited"]
         /\ UNCHANGED <<poolVars, ppc, wjob, deqSeq>>

\* mutant of DequeueRemove: no signal on queue_not_full
DequeueRemoveNoSignal(w) ==
    LET job == job_queue_head IN
    IF job # NULL
    THEN /\ job_queue_head' = next[job]
         /\ job_queue_tail' = IF next[job] = NULL THEN NULL ELSE job_queue_tail
         /\ queue_size' = queue_size - 1
         /\ shutdown' = shutdown
         /\ next' = [next EXCEPT ![job] = NULL]
         /\ ppc' = ppc
         /\ wpc' = [wpc EXCEPT ![w] = "exec"]
         /\ wjob' = [wjob EXCEPT ![w] = job]
         /\ deqSeq' = Append(deqSeq, <<w, job>>)
    ELSE /\ wpc' = [wpc EXCEPT ![w] = "exited"]
         /\ UNCHANGED <<poolVars, ppc, wjob, deqSeq>>

\* the removal at the head, queue_size-- and the signal on queue_not_full
DequeueRemove(w) ==
    LET job == job_queue_head IN
    IF job # NULL
    THEN /\ job_queue_head' = next[job]
         /\ job_queue_tail' = IF next[job] = NULL THEN NULL ELSE job_queue_tail
         /\ queue_size' = queue_size - 1
         /\ shutdown' = shutdown
         /\ next' = [next EXCEPT ![job] = NULL]
         /\ ppc' \in SignalOne(ppc, Producers)
         /\ wpc' = [wpc EXCEPT ![w] = "exec"]
         /\ wjob' = [wjob EXCEPT ![w] = job]
         /\ deqSeq' = Append(deqSeq, <<w, job>>)
    ELSE /\ wpc' = [wpc EXCEPT ![w] = "exited"]
         /\ UNCHANGED <<poolVars, ppc, wjob, deqSeq>>

\* the wait loop and what follows it, run with the mutex held; a NULL
\* result makes worker_thread break out of its loop
DequeueLoop(w) ==
    IF DequeueMustWait
    THEN /\ wpc' = [wpc EXCEPT ![w] = "waiting"]
         /\ UNCHANGED <<poolVars, ppc, wjob, deqSeq>>
    ELSE IF DequeueClosed
    THEN /\ wpc' = [wpc EXCEPT ![w] = "exited"]
         /\ UNCHANGED <<poolVars, ppc, wjob, deqSeq>>
    ELSE DequeueRemove(w)

\* worker_thread calls dequeue_sync_job
DequeueEnter(w) ==
    /\ wpc[w] = "dequeue"
    /\ DequeueLoop(w)
    /\ UNCHANGED <<xferVars, pairVars, regVars, addVars, parseVars, createVars>>
    /\ UNCHANGED <<pjob, pblocked, dpc, ghostNoDeq>>

\* pthread_cond_wait returns in dequeue_sync_job: the loop is tested again
DequeueWake(w) ==
    /\ wpc[w] = "woken"
    /\ DequeueLoop(w)
    /\ UNCHANGED <<xferVars, pairVars, regVars, addVars, parseVars, createVars>>
    /\ UNCHANGED <<pjob, pblocked, dpc, ghostNoDeq>>

\* what sync_single_file(job) returns to worker_thread
SyncOutcome(j) == IF j \in unreachable THEN -1 ELSE 0

\* mutant of WorkerFinish: the worker leaves its loop when a transfer fails
WorkerFinishExitOnFailure(w) ==
    /\ wpc[w] = "exec"
    /\ executed' = [executed EXCEPT ![wjob[w]] = @ + 1]
    /\ freed' = [freed EXCEPT ![wjob[w]] = @ + 1]
    /\ freedBy' = [freedBy EXCEPT ![wjob[w]] = <<"worker", w>>]
    /\ wpc' = [wpc EXCEPT ![w] = IF SyncOutcome(wjob[w]) # 0 THEN "exited"
                                 ELSE "dequeue"]
    /\ wjob' = [wjob EXCEPT ![w] = NULL]
    /\ UNCHANGED <<xferVars, pairVars, regVars, addVars, parseVars, createVars>>
    /\ UNCHANGED <<poolVars, ppc, pjob, pblocked, dpc, created, enqOrder,
                   deqSeq, queuedAtShutdown, heldAtShutdown, waitersAtShutdown>>

\* mutant of WorkerFinish: a worker that sees the flag frees its job
\* without running sync_single_file
WorkerFinishSkipOnShutdown(w) ==
    /\ wpc[w] = "exec"
    /\ executed' = [executed EXCEPT ![wjob[w]] = IF shutdown THEN @ ELSE @ + 1]
    /\ freed' = [freed EXCEPT ![wjob[w]] = @ + 1]
    /\ freedBy' = [freedBy EXCEPT ![wjob[w]] = <<"worker", w>>]
    /\ wpc' = [wpc EXCEPT ![w] = "dequeue"]
    /\ wjob' = [wjob EXCEPT ![w] = NULL]
    /\ UNCHANGED <<xferVars, pairVars, regVars, addVars, parseVars, createVars>>
    /\ UNCHANGED <<poolVars, ppc, pjob, pblocked, dpc, created, enqOrder,
                   deqSeq, queuedAtShutdown, heldAtShutdown, waitersAtShutdown>>

\* mutant of WorkerFinish: the job of a pair that is no longer active is
\* freed without running sync_single_file
WorkerFinishSkipInactive(w) ==
    /\ wpc[w] = "exec"
    /\ executed' = [executed EXCEPT ![wjob[w]] =
                       IF \E i \in 1..Len(sync_store) :
                             /\ sync_store[i].key = jobInfo[wjob[w]].key
                             /\ sync_store[i].active
                       THEN @ + 1 ELSE @]
    /\ freed' = [freed EXCEPT ![wjob[w]] = @ + 1]
    /\ freedBy' = [freedBy EXCEPT ![wjob[w]] = <<"worker", w>>]
    /\ wpc' = [wpc EXCEPT ![w] = "dequeue"]
    /\ wjob' = [wjob EXCEPT ![w] = NULL]
    /\ UNCHANGED <<xferVars, pairVars, regVars, addVars, parseVars, createVars>>
    /\ UNCHANGED <<poolVars, ppc, pjob, pblocked, dpc, created, enqOrder,
                   deqSeq, queuedAtShutdown, heldAtShutdown, waitersAtShutdown>>

\* sync_single_file returns SyncOutcome(job), 0 or -1, which selects a
\* printf only; then free_sync_job(job) and the loop starts over
WorkerFinish(w) ==
    /\ wpc[w] = "exec"
    /\ executed' = [executed EXCEPT ![wjob[w]] = @ + 1]
    /\ freed' = [freed EXCEPT ![wjob[w]] = @ + 1]
    /\ freedBy' = [freedBy EXCEPT ![wjob[w]] = <<"worker", w>>]
    /\ wpc' = [wpc EXCEPT ![w] = "dequeue"]
    /\ wjob' = [wjob EXCEPT ![w] = NULL]
    /\ UNCHANGED <<xferVars, pairVars, regVars, addVars, parseVars, createVars>>
    /\ UNCHANGED <<poolVars, ppc, pjob, pblocked, dpc, created, enqOrder,
                   deqSeq, queuedAtShutdown, heldAtShutdown, waitersAtShutdown>>

\* a thread in pthread_cond_wait may wake without a signal
SpuriousWake ==
    /\ \/ \E w \in Workers :
            /\ wpc[w] = "waiting"
            /\ wpc' = [wpc EXCEPT ![w] = "woken"]
            /\ ppc' = ppc
       \/ \E p \in Producers :
            /\ ppc[p] = "waiting"
            /\ ppc' = [ppc EXCEPT ![p] = "woken"]
            /\ wpc' = wpc
    /\ UNCHANGED <<xferVars, pairVars, regVars, addVars, parseVars, createVars>>
    /\ UNCHANGED <<poolVars, wjob, pjob, pblocked, dpc, ghostVars>>

(***************************************************************************)
(* signal_shutdown and destroy_thread_pool                                 *)
(***************************************************************************)
\* the ghost record of the queue and of the jobs in flight at the moment
\* the flag goes from 0 to 1
RecordShutdown ==
    IF shutdown
    THEN UNCHANGED <<queuedAtShutdown, heldAtShutdown, waitersAtShutdown>>
    ELSE /\ queuedAtShutdown' = QueueJobs
         /\ heldAtShutdown' = {<<w, wjob[w]>> : w \in {u \in Workers : wpc[u] = "exec"}}
         /\ waitersAtShutdown' =
               {<<"worker", w>> : w \in {u \in Workers : wpc[u] = "waiting"}}
               \cup {<<"producer", q>> : q \in {u \in Producers : ppc[u] = "waiting"}}

\* shutdown = 1 and both broadcasts, under the mutex
SetShutdown ==
    /\ shutdown' = TRUE
    /\ wpc' = BroadcastNotEmpty(wpc)
    /\ ppc' = BroadcastNotFull(ppc)
    /\ RecordShutdown
    /\ UNCHANGED <<xferVars, pairVars, regVars, addVars, parseVars, createVars>>
    /\ UNCHANGED <<job_queue_head, job_queue_tail, queue_size, next, wjob,
                   pjob, pblocked, created, freed, freedBy, executed,
                   enqOrder, deqSeq>>

\* signal_shutdown, from handle_shutdown_command
SignalShutdown ==
    /\ dpc = "none"
    /\ SetShutdown
    /\ dpc' = dpc

\* destroy_thread_pool up to its joins; cleanup_manager calls it from the
\* thread that runs start_directory_sync, so no producer is inside a call
DestroyStart ==
    /\ dpc = "none"
    /\ \A p \in Producers : ppc[p] = "idle"
    /\ SetShutdown
    /\ dpc' = "joining"

\* the jobs destroy_thread_pool's drain loop frees: those linked from head
DrainJobs == QueueJobs

\* destroy_thread_pool once every pthread_join has returned: the drain
\* loop moves head along the list and frees each job
DestroyJoin ==
    /\ dpc = "joining"
    /\ \A w \in Workers : wpc[w] = "exited"
    /\ job_queue_head' = NULL
    /\ freed' = [j \in Jobs |-> IF j \in DrainJobs THEN freed[j] + 1 ELSE freed[j]]
    /\ freedBy' = [j \in Jobs |-> IF j \in DrainJobs THEN <<"destroy", 0>> ELSE freedBy[j]]
    /\ dpc' = "done"
    /\ UNCHANGED <<xferVars, pairVars, regVars, addVars, parseVars, createVars>>
    /\ UNCHANGED <<job_queue_tail, queue_size, shutdown, next, wpc, wjob,
                   ppc, pjob, pblocked, created, executed, enqOrder, deqSeq,
                   queuedAtShutdown, heldAtShutdown, waitersAtShutdown>>

Next ==
    \/ \E p \in Producers : CreateAndEnqueue(p)
    \/ \E p \in Producers : EnqueueWake(p)
    \/ \E p \in Producers : ProducerFree(p)
    \/ \E w \in Workers : DequeueEnter(w)
    \/ \E w \in Workers : DequeueWake(w)
    \/ \E w \in Workers : WorkerFinish(w)
    \/ SpuriousWake
    \/ SignalShutdown
    \/ DestroyStart
    \/ DestroyJoin

Spec == Init /\ [][Next]_vars

(***************************************************************************)
(* Transfers: sync_single_file (src/src/thread_pool.c) between a source    *)
(* and a target file-server (src/src/nfs_client_logic.c), called once per  *)
(* job by a worker.                                                        *)
(*                                                                         *)
(* A TCP stream is the sequence of bytes sent and not yet read; a recv     *)
(* returns any non-empty prefix of it, which gives every segmentation of   *)
(* the stream into reads.  A byte is a pair <<kind, value>>: the decimal   *)
(* size token of a PULL reply, the text "PUSH <path> <k>" of a PUSH        *)
(* header, a space, a newline, an error text, or one byte of file data.    *)
(* A send on a connection that failed returns -1 and writes nothing; a     *)
(* send of payload on a live connection may return a short count.          *)
(***************************************************************************)
Bytes == {1, 2}
Files == UNION {[1..n -> Bytes] : n \in 0..MaxFileLen}

SizeTok(n) == <<"size", n>>
PushTok(k) == <<"push", k>>
SP == <<"sp", 0>>
NL == <<"nl", 0>>
ErrText == <<"msg", 0>>
Data(f) == [i \in 1..Len(f) |-> <<"d", f[i]>>]
OldData == <<<<"old", 0>>>>

Take(seq, n) == SubSeq(seq, 1, n)
Drop(seq, n) == SubSeq(seq, n + 1, Len(seq))

\* the three framings sync_single_file writes with snprintf
OpenFrame == <<PushTok(-1), NL>>
ChunkHeader(k) == <<PushTok(k), SP>>
CloseFrame == <<PushTok(0), NL>>

\* the state when the first sync_single_file is called: a file at the
\* source, the target file absent or holding older bytes, a target
\* file-server blocked in accept with no descriptor retained
XferInit ==
    /\ srcFile \in Files
    /\ srcAlive = TRUE
    /\ srcStream = <<>>
    /\ tgtStream = <<>>
    /\ tgtOpen = FALSE
    /\ tgtFile \in {<<>>, OldData}
    /\ current_fd = FALSE
    /\ tpc = "accept"
    /\ chunk_left = 0
    /\ mpc = "connect"
    /\ file_size = 0
    /\ total_transferred = 0
    /\ sync_result = 0
    /\ spc = "idle"
    /\ pull_fd = FALSE
    /\ pull_buf = <<>>
    /\ srcSent = <<>>
    /\ tgtSent = <<>>
    /\ tgtBroken = FALSE
    /\ sendFault = FALSE
    /\ cmdSawPayload = FALSE
    /\ conn = 0
    /\ fdConn = 0
    /\ openAtAccept = FALSE
    /\ chunk_size = 0
    /\ total_received = 0
    /\ consumed = <<>>
    /\ log = {}
    /\ fds = NoFds
    /\ xfers = 1

\* close(fd) on a descriptor: closed when it was open; closing one that is
\* not open is an error of the caller
Close(fd) == IF fd = "open" THEN "closed" ELSE "bad"

\* close(source_fd); close(target_fd);
CloseBoth == fds' = [source |-> Close(fds.source), target |-> Close(fds.target)]

\* mutant of TargetConnectFailed: return without close(source_fd)
TargetConnectFailedLeak == [source |-> "open", target |-> "none"]

\* the descriptors after the failed connect to the target: source_fd was
\* opened and is closed before the return
TargetConnectFailed == [source |-> Close("open"), target |-> "none"]

\* sync_single_file returns r; no connection is left to the target
SyncReturn(r) ==
    /\ mpc' = "done"
    /\ sync_result' = r
    /\ tgtOpen' = FALSE

\* connect_to_server twice, then send_command "PULL <path>\n"; the target's
\* accept returns and handle_client_connection starts
SyncConnect ==
    /\ mpc = "connect"
    /\ mpc' = "pull_sent"
    /\ tgtOpen' = TRUE
    /\ tpc' = "cmd"
    /\ conn' = conn + 1
    /\ openAtAccept' = current_fd
    /\ fds' = [source |-> "open", target |-> "open"]
    /\ UNCHANGED <<poolAll, regVars, addVars, parseVars, createVars>>
    /\ UNCHANGED <<srcFile, srcAlive, srcStream, tgtStream, tgtFile,
                   current_fd, chunk_left, file_size, total_transferred,
                   sync_result>>
    /\ UNCHANGED <<srcVars, linkVars, cmdSawPayload, fdConn, pushVars,
                   log, xfers>>

\* a connect_to_server fails, to the source or to the target: the ERROR
\* line of that side, return -1
SyncConnectFail ==
    /\ mpc = "connect"
    /\ SyncReturn(-1)
    /\ \/ /\ log' = log \cup {<<"PULL", "ERROR">>}
          /\ fds' = fds
       \/ /\ log' = log \cup {<<"PUSH", "ERROR">>}
          /\ fds' = TargetConnectFailed
    /\ UNCHANGED <<poolAll, regVars, addVars, parseVars, createVars>>
    /\ UNCHANGED <<srcFile, srcAlive, srcStream, tgtStream, tgtFile,
                   current_fd, tpc, chunk_left, file_size,
                   total_transferred>>
    /\ UNCHANGED <<srcVars, linkVars, connVars, pushVars, xfers>>

(***************************************************************************)
(* The source file-server: handle_pull_command                             *)
(***************************************************************************)
\* what handle_pull_command is to reply for the file it was asked for
PullReply(opened) ==
    IF opened THEN <<SizeTok(Len(srcFile)), SP>> \o Data(srcFile)
    ELSE <<SizeTok(-1), SP, ErrText>>

\* handle_pull_command up to its send loop: open and fstat; "-1 <strerror>"
\* when one fails, else "<size> " and the read of the file into buffer
HandlePull ==
    /\ mpc = "pull_sent"
    /\ srcAlive
    /\ \E opened \in BOOLEAN :
         /\ pull_fd' = opened
         /\ IF opened
            THEN /\ srcStream' = srcStream \o <<SizeTok(Len(srcFile)), SP>>
                 /\ srcSent' = srcSent \o <<SizeTok(Len(srcFile)), SP>>
                 /\ pull_buf' = Data(srcFile)
                 /\ spc' = IF Len(srcFile) = 0 THEN "done" ELSE "send"
            ELSE /\ srcStream' = srcStream \o PullReply(FALSE)
                 /\ srcSent' = srcSent \o PullReply(FALSE)
                 /\ pull_buf' = <<>>
                 /\ spc' = "done"
    /\ mpc' = "first_recv"
    /\ UNCHANGED fds
    /\ UNCHANGED <<poolAll, regVars, addVars, parseVars, createVars>>
    /\ UNCHANGED <<srcFile, srcAlive, tgtStream, tgtOpen, tgtFile,
                   current_fd, tpc, chunk_left, file_size,
                   total_transferred, sync_result>>
    /\ UNCHANGED <<linkVars, connVars, pushVars, log, xfers>>

\* mutant of PullAdvance: a short count is taken for the whole buffer
PullAdvanceAll(sent) == Len(pull_buf)

\* bytes_sent += sent
PullAdvance(sent) == sent

\* one send of the inner loop: it may take any part of what is left of the
\* buffer; when the buffer is out the next read returns 0 and the file is
\* closed
PullSend ==
    /\ spc = "send"
    /\ srcAlive
    /\ \E sent \in 1..Len(pull_buf) :
         /\ srcStream' = srcStream \o Take(pull_buf, sent)
         /\ srcSent' = srcSent \o Take(pull_buf, sent)
         /\ pull_buf' = Drop(pull_buf, PullAdvance(sent))
         /\ spc' = IF pull_buf' = <<>> THEN "done" ELSE "send"
    /\ UNCHANGED fds
    /\ UNCHANGED <<poolAll, regVars, addVars, parseVars, createVars>>
    /\ UNCHANGED <<srcFile, srcAlive, tgtStream, tgtOpen, tgtFile,
                   current_fd, tpc, chunk_left, mpc, file_size,
                   total_transferred, sync_result>>
    /\ UNCHANGED <<pull_fd, linkVars, connVars, pushVars, log, xfers>>

\* send returns -1 on the ended connection: close(fd), return
PullSendFail ==
    /\ spc = "send"
    /\ ~srcAlive
    /\ spc' = "done"
    /\ UNCHANGED fds
    /\ UNCHANGED <<poolAll, regVars, addVars, parseVars, createVars>>
    /\ UNCHANGED <<srcFile, srcAlive, srcStream, tgtStream, tgtOpen, tgtFile,
                   current_fd, tpc, chunk_left, mpc, file_size,
                   total_transferred, sync_result>>
    /\ UNCHANGED <<pull_fd, pull_buf, srcSent, linkVars, connVars, pushVars,
                   log, xfers>>

\* the source connection ends early: what was sent so far can still be
\* read, every later send fails
SourceDies ==
    /\ srcAlive
    /\ mpc \in {"pull_sent", "first_recv", "loop"}
    /\ srcAlive' = FALSE
    /\ mpc' = IF mpc = "pull_sent" THEN "first_recv" ELSE mpc
    /\ UNCHANGED fds
    /\ UNCHANGED <<poolAll, regVars, addVars, parseVars, createVars>>
    /\ UNCHANGED <<srcFile, srcStream, tgtStream, tgtOpen, tgtFile,
                   current_fd, tpc, chunk_left, file_size, total_transferred,
                   sync_result>>
    /\ UNCHANGED <<srcVars, linkVars, connVars, pushVars, log, xfers>>

\* the target connection fails: every later send on it returns -1
TargetLinkFails ==
    /\ tgtOpen
    /\ ~tgtBroken
    /\ mpc \in {"first_recv", "loop"}
    /\ tgtBroken' = TRUE
    /\ UNCHANGED fds
    /\ UNCHANGED <<poolAll, regVars, addVars, parseVars, createVars>>
    /\ UNCHANGED <<srcFile, srcAlive, srcStream, tgtStream, tgtOpen, tgtFile,
                   current_fd, tpc, chunk_left, mpc, file_size,
                   total_transferred, sync_result>>
    /\ UNCHANGED <<srcVars, tgtSent, sendFault, connVars, pushVars, log,
                   xfers>>

(***************************************************************************)
(* sync_single_file after the PULL command                                 *)
(***************************************************************************)
\* strchr(response, ' '): the index of the first space, 0 when there is none
SpacePos(response) ==
    IF \E i \in 1..Len(response) : response[i] = SP
    THEN CHOOSE i \in 1..Len(response) :
            /\ response[i] = SP
            /\ \A k \in 1..(i - 1) : response[k] # SP
    ELSE 0

\* atol(response): the decimal number the text starts with, 0 when none
Atol(response) ==
    IF Len(response) > 0 /\ response[1][1] = "size" THEN response[1][2] ELSE 0

\* one chunk as sync_single_file forwards it: send_command of the header,
\* then send of the payload
ForwardChunk(payload) == ChunkHeader(Len(payload)) \o payload

\* the same with a send of the payload that returns a short count
ShortSend(payload) ==
    {ChunkHeader(Len(payload)) \o Take(payload, n) : n \in 1..(Len(payload) - 1)}

\* what the two unchecked calls may put on the target connection
ForwardOutcomes(payload) ==
    IF tgtBroken THEN {<<>>}
    ELSE {ForwardChunk(payload)} \cup ShortSend(payload)

\* the bytes pre, then one forwarded chunk, written to the target connection
ForwardTo(pre, payload) ==
    \E w \in ForwardOutcomes(payload) :
        /\ tgtStream' = tgtStream \o pre \o w
        /\ tgtSent' = tgtSent \o pre \o w
        /\ sendFault' = (sendFault \/ w # ForwardChunk(payload))

\* mutant of SourceError: a negative size is not tested for
SourceErrorIgnored(size) == FALSE

\* the test for an error reply of the source, file_size < 0
SourceError(size) == size < 0

\* the first recv on the source connection, the parse of the size, the
\* open frame and the payload that came with the header
SyncFirstRecv ==
    /\ mpc = "first_recv"
    /\ Len(srcStream) > 0
    /\ \E n \in 1..Len(srcStream) :
         LET response == Take(srcStream, n)
             space_pos == SpacePos(response)
             size == Atol(response)
             data_in_first_read == Drop(response, space_pos)
         IN /\ srcStream' = Drop(srcStream, n)
            /\ IF space_pos = 0
               THEN /\ SyncReturn(-1)
                    /\ CloseBoth
                    /\ UNCHANGED <<file_size, tgtStream, total_transferred,
                                   tgtSent, sendFault, log>>
               ELSE IF SourceError(size)
               THEN /\ SyncReturn(-1)
                    /\ CloseBoth
                    /\ file_size' = size
                    /\ log' = log \cup {<<"PULL", "ERROR">>}
                    /\ UNCHANGED <<tgtStream, total_transferred, tgtSent,
                                   sendFault>>
               ELSE IF tgtBroken
               THEN /\ SyncReturn(-1)
                    /\ CloseBoth
                    /\ file_size' = size
                    /\ sendFault' = TRUE
                    /\ UNCHANGED <<tgtStream, total_transferred, tgtSent, log>>
               ELSE /\ file_size' = size
                    /\ mpc' = "loop"
                    /\ IF Len(data_in_first_read) > 0
                       THEN ForwardTo(OpenFrame, data_in_first_read)
                       ELSE /\ tgtStream' = tgtStream \o OpenFrame
                            /\ tgtSent' = tgtSent \o OpenFrame
                            /\ sendFault' = sendFault
                    /\ total_transferred' = Len(data_in_first_read)
                    /\ UNCHANGED <<sync_result, tgtOpen, log, fds>>
    /\ UNCHANGED <<poolAll, regVars, addVars, parseVars, createVars>>
    /\ UNCHANGED <<srcFile, srcAlive, tgtFile, current_fd, tpc, chunk_left>>
    /\ UNCHANGED <<srcVars, tgtBroken, connVars, pushVars, xfers>>

\* the first recv returns <= 0: the call returns -1
SyncFirstRecvFail ==
    /\ mpc = "first_recv"
    /\ Len(srcStream) = 0
    /\ ~srcAlive
    /\ SyncReturn(-1)
    /\ CloseBoth
    /\ UNCHANGED <<poolAll, regVars, addVars, parseVars, createVars>>
    /\ UNCHANGED <<srcFile, srcAlive, srcStream, tgtStream, tgtFile,
                   current_fd, tpc, chunk_left, file_size,
                   total_transferred>>
    /\ UNCHANGED <<srcVars, linkVars, connVars, pushVars, log, xfers>>

\* the loop condition, total_transferred < file_size
MoreToTransfer == total_transferred < file_size

\* one round of the transfer loop: recv a chunk, forward it
SyncLoopRecv ==
    /\ mpc = "loop"
    /\ MoreToTransfer
    /\ Len(srcStream) > 0
    /\ \E n \in 1..Len(srcStream) :
         /\ srcStream' = Drop(srcStream, n)
         /\ ForwardTo(<<>>, Take(srcStream, n))
         /\ total_transferred' = total_transferred + n
    /\ UNCHANGED fds
    /\ UNCHANGED <<poolAll, regVars, addVars, parseVars, createVars>>
    /\ UNCHANGED <<srcFile, srcAlive, tgtOpen, tgtFile, current_fd, tpc,
                   chunk_left, mpc, file_size, sync_result>>
    /\ UNCHANGED <<srcVars, tgtBroken, connVars, pushVars, log, xfers>>

\* what sync_single_file returns once its loop has ended
LoopResult == 0

\* the loop ends, by its condition or by the break on a recv that returns
\* <= 0: the close frame (its send unchecked), both close calls, the two
\* SUCCESS log lines, return
SyncFinish ==
    /\ mpc = "loop"
    /\ \/ ~MoreToTransfer
       \/ (Len(srcStream) = 0 /\ ~srcAlive)
    /\ IF tgtBroken
       THEN /\ sendFault' = TRUE
            /\ UNCHANGED <<tgtStream, tgtSent>>
       ELSE /\ tgtStream' = tgtStream \o CloseFrame
            /\ tgtSent' = tgtSent \o CloseFrame
            /\ sendFault' = sendFault
    /\ log' = log \cup {<<"PULL", "SUCCESS">>, <<"PUSH", "SUCCESS">>}
    /\ SyncReturn(LoopResult)
    /\ CloseBoth
    /\ UNCHANGED <<poolAll, regVars, addVars, parseVars, createVars>>
    /\ UNCHANGED <<srcFile, srcAlive, srcStream, tgtFile, current_fd, tpc,
                   chunk_left, file_size, total_transferred>>
    /\ UNCHANGED <<srcVars, tgtBroken, connVars, pushVars, xfers>>

\* worker_thread's loop: the next job's sync_single_file call, for the same
\* file between the same two file-servers, once the target file-server is
\* back in accept
NextJob ==
    /\ mpc = "done"
    /\ tpc \in {"accept", "closed"}
    /\ xfers + 1 \in SyncCalls
    /\ xfers' = xfers + 1
    /\ mpc' = "connect"
    /\ tpc' = "accept"
    /\ srcAlive' = TRUE
    /\ srcStream' = <<>>
    /\ tgtStream' = <<>>
    /\ file_size' = 0
    /\ total_transferred' = 0
    /\ sync_result' = 0
    /\ spc' = "idle"
    /\ pull_fd' = FALSE
    /\ pull_buf' = <<>>
    /\ srcSent' = <<>>
    /\ tgtSent' = <<>>
    /\ tgtBroken' = FALSE
    /\ sendFault' = FALSE
    /\ cmdSawPayload' = FALSE
    /\ log' = {}
    /\ fds' = NoFds
    /\ chunk_left' = 0
    /\ chunk_size' = 0
    /\ total_received' = 0
    /\ UNCHANGED <<poolAll, regVars, addVars, parseVars, createVars>>
    /\ UNCHANGED <<srcFile, tgtOpen, tgtFile, current_fd, conn, fdConn,
                   openAtAccept, consumed>>

(***************************************************************************)
(* The target file-server: handle_client_connection, handle_push_command   *)
(***************************************************************************)
\* mutant of OpenTruncates: open without O_TRUNC
OpenKeepsContent(content) == content

\* open(relative_path, O_WRONLY | O_CREAT | O_TRUNC): the file's content
\* after a successful open
OpenTruncates(content) == <<>>

\* handle_push_command(client_fd, path, k), up to its first recv; the open
\* of k = -1 may fail, which leaves no descriptor
HandlePush(k) ==
    IF k = -1
    THEN /\ \/ /\ current_fd' = TRUE
               /\ tgtFile' = OpenTruncates(tgtFile)
               /\ fdConn' = conn
               /\ consumed' = <<>>
            \/ /\ current_fd' = FALSE
               /\ UNCHANGED <<tgtFile, fdConn, consumed>>
         /\ UNCHANGED <<tpc, chunk_left, chunk_size, total_received>>
    ELSE IF k = 0
    THEN /\ current_fd' = FALSE
         /\ UNCHANGED <<tgtFile, tpc, chunk_left, fdConn, pushVars>>
    ELSE IF ~current_fd
    THEN UNCHANGED <<current_fd, tgtFile, tpc, chunk_left, fdConn, pushVars>>
    ELSE /\ tpc' = "chunk"
         /\ chunk_left' = k
         /\ chunk_size' = k
         /\ total_received' = 0
         /\ UNCHANGED <<current_fd, tgtFile, fdConn, consumed>>

\* one recv of handle_client_connection's loop and the command it parses:
\* the buffer is cut at its first newline and read as one command, so only
\* a buffer that starts with "PUSH <path> <k>" reaches handle_push_command;
\* whatever else the recv returned is dropped
HandleCommand ==
    /\ tpc = "cmd"
    /\ Len(tgtStream) > 0
    /\ \E n \in 1..Len(tgtStream) :
         LET buffer == Take(tgtStream, n) IN
         /\ tgtStream' = Drop(tgtStream, n)
         /\ cmdSawPayload' =
               (cmdSawPayload \/ \E i \in 1..n : buffer[i][1] = "d")
         /\ IF buffer[1][1] = "push"
            THEN HandlePush(buffer[1][2])
            ELSE UNCHANGED <<current_fd, tgtFile, tpc, chunk_left, fdConn,
                             pushVars>>
    /\ UNCHANGED fds
    /\ UNCHANGED <<poolAll, regVars, addVars, parseVars, createVars>>
    /\ UNCHANGED <<srcFile, srcAlive, srcStream, tgtOpen, mpc, file_size,
                   total_transferred, sync_result>>
    /\ UNCHANGED <<srcVars, linkVars, conn, openAtAccept, log, xfers>>

\* mutant of ChunkDone: the call returns after its first recv
ChunkDoneAfterOneRecv(received) == TRUE

\* the loop condition of handle_push_command fails: total_received has
\* reached chunk_size
ChunkDone(received) == chunk_left = received

\* one round of handle_push_command's loop: recv at most what is left of
\* the chunk, write it to the file
PushRecvChunk ==
    /\ tpc = "chunk"
    /\ Len(tgtStream) > 0
    /\ \E n \in 1..Len(tgtStream) :
         /\ n <= chunk_left
         /\ tgtStream' = Drop(tgtStream, n)
         /\ tgtFile' = tgtFile \o Take(tgtStream, n)
         /\ consumed' = consumed \o Take(tgtStream, n)
         /\ chunk_left' = chunk_left - n
         /\ total_received' = total_received + n
         /\ tpc' = IF ChunkDone(n) THEN "cmd" ELSE "chunk"
    /\ UNCHANGED fds
    /\ UNCHANGED <<poolAll, regVars, addVars, parseVars, createVars>>
    /\ UNCHANGED <<srcFile, srcAlive, srcStream, tgtOpen, current_fd, mpc,
                   file_size, total_transferred, sync_result>>
    /\ UNCHANGED <<srcVars, linkVars, connVars, chunk_size, log, xfers>>

\* recv returns 0 after the sender's close, or fails on a failed
\* connection: handle_push_command returns, handle_client_connection
\* leaves its loop and closes the connection
TargetEof ==
    /\ tpc \in {"cmd", "chunk"}
    /\ Len(tgtStream) = 0
    /\ ~tgtOpen \/ tgtBroken
    /\ tpc' = "closed"
    /\ UNCHANGED fds
    /\ UNCHANGED <<poolAll, regVars, addVars, parseVars, createVars>>
    /\ UNCHANGED <<srcFile, srcAlive, srcStream, tgtStream, tgtOpen,
                   tgtFile, current_fd, chunk_left, mpc, file_size,
                   total_transferred, sync_result>>
    /\ UNCHANGED <<srcVars, linkVars, connVars, pushVars, log, xfers>>

XferNext ==
    \/ SyncConnect
    \/ SyncConnectFail
    \/ HandlePull
    \/ PullSend
    \/ PullSendFail
    \/ SourceDies
    \/ TargetLinkFails
    \/ SyncFirstRecv
    \/ SyncFirstRecvFail
    \/ SyncLoopRecv
    \/ SyncFinish
    \/ NextJob
    \/ HandleCommand
    \/ PushRecvChunk
    \/ TargetEof

XferStart == PoolInit /\ PairIdle /\ XferInit /\ RegInit /\ ListIdle /\ ParseIdle

XferSpec == XferStart /\ [][XferNext]_vars

(***************************************************************************)
(* One file-server as source and target (src/src/nfs_client.c).  main      *)
(* accepts a connection and runs handle_client_connection on it to its     *)
(* end before it accepts the next: the connection to the source is served  *)
(* first, the connection to the target waits in the listen queue until the *)
(* source connection has been closed.  What is sent to the target until    *)
(* then stays in the socket buffers, and a send blocks when they are full. *)
(***************************************************************************)
\* the bytes the socket buffers of one connection hold
SocketBuffer == 8

\* main's loop is past the source connection: accept has returned the
\* target connection
TargetAccepted == spc = "closed"

\* a send on the target connection returns once its bytes are in the
\* socket buffers
SendReturns == Len(tgtStream') <= SocketBuffer

\* handle_client_connection on the source connection: recv returns 0 after
\* sync_single_file's close(source_fd), the loop ends, close(client_fd);
\* main goes back to accept
SourceEof ==
    /\ mpc = "done"
    /\ spc = "done"
    /\ spc' = "closed"
    /\ UNCHANGED fds
    /\ UNCHANGED <<poolAll, regVars, addVars, parseVars, createVars>>
    /\ UNCHANGED <<srcFile, srcAlive, srcStream, tgtStream, tgtOpen, tgtFile,
                   current_fd, tpc, chunk_left, mpc, file_size,
                   total_transferred, sync_result>>
    /\ UNCHANGED <<pull_fd, pull_buf, srcSent, linkVars, connVars, pushVars,
                   log, xfers>>

SelfFirstRecv == SyncFirstRecv /\ SendReturns
SelfLoopRecv == SyncLoopRecv /\ SendReturns
SelfFinish == SyncFinish /\ SendReturns
SelfHandleCommand == TargetAccepted /\ HandleCommand
SelfPushRecvChunk == TargetAccepted /\ PushRecvChunk
SelfTargetEof == TargetAccepted /\ TargetEof
SelfNextJob == TargetAccepted /\ NextJob

\* both endpoints are the one live file-server: no connection fails
SelfNext ==
    \/ SyncConnect
    \/ HandlePull
    \/ PullSend
    \/ SelfFirstRecv
    \/ SelfLoopRecv
    \/ SelfFinish
    \/ SourceEof
    \/ SelfHandleCommand
    \/ SelfPushRecvChunk
    \/ SelfTargetEof
    \/ SelfNextJob

SelfSpec == XferStart /\ [][SelfNext]_vars

(***************************************************************************)
(* The registry of sync pairs (sync_info.c) and handle_add_command         *)
(* (src/src/nfs_manager_logic.c).  Every registry function locks           *)
(* store->mutex around its list walk, so one action is one critical        *)
(* section; deactivate_sync_info takes the lock twice and                  *)
(* handle_add_command calls find, add and start_directory_sync in turn.    *)
(* The list is the sequence of its entries from head on.                   *)
(***************************************************************************)
\* the three comparisons every list walk makes: strcmp on source_host,
\* == on source_port, strcmp on source_dir
KeyMatch(current, source_host, source_port, source_dir) ==
    /\ current.key[1] = source_host
    /\ current.key[2] = source_port
    /\ current.key[3] = source_dir

\* the list walk from head: the position of the first entry that matches,
\* 0 when current runs to NULL
FindIndex(k) ==
    IF \E i \in 1..Len(sync_store) : KeyMatch(sync_store[i], k[1], k[2], k[3])
    THEN CHOOSE i \in 1..Len(sync_store) :
            /\ KeyMatch(sync_store[i], k[1], k[2], k[3])
            /\ \A h \in 1..(i - 1) : ~KeyMatch(sync_store[h], k[1], k[2], k[3])
    ELSE 0

\* mutant of AddFinds: only the head entry is compared
AddFindsHeadOnly(k) ==
    IF Len(sync_store) > 0 /\ KeyMatch(sync_store[1], k[1], k[2], k[3])
    THEN 1 ELSE 0

\* add_sync_info's walk for an entry that already exists
AddFinds(k) == FindIndex(k)

\* create_sync_info: a new entry, active, no errors
CreateSyncInfo(k, t) ==
    [id |-> next_info + 1, key |-> k, target |-> t, active |-> TRUE,
     error_count |-> 0]

\* a call returns ret to its caller
Returns(c, op, k, t, ret) ==
    last' = [seq |-> last.seq + 1, caller |-> c, op |-> op, key |-> k,
             target |-> t, ret |-> ret]

\* mutant of AddCritical: the entry is linked without the walk for its key
AddCriticalNoWalk(info) ==
    /\ sync_store' = <<info>> \o sync_store
    /\ store_count' = store_count + 1

\* add_sync_info's critical section for the entry info: 1 when the key
\* exists, else the entry goes in front of head and count++
AddCritical(info) ==
    IF AddFinds(info.key) # 0
    THEN UNCHANGED <<sync_store, store_count>>
    ELSE /\ sync_store' = <<info>> \o sync_store
         /\ store_count' = store_count + 1

\* create_sync_info, then add_sync_info; the caller frees an entry that
\* was not added
AddSyncInfo(c, k, t) ==
    /\ rpc[c] = "idle"
    /\ ops < NumOps
    /\ ops' = ops + 1
    /\ next_info' = next_info + 1
    /\ AddCritical(CreateSyncInfo(k, t))
    /\ Returns(c, "add", k, t, IF AddFinds(k) # 0 THEN 1 ELSE 0)
    /\ freed_info' = IF AddFinds(k) # 0 THEN freed_info \cup {next_info + 1}
                     ELSE freed_info
    /\ UNCHANGED <<rpc, rarg, info_ptr, store_uaf, enq>>
    /\ UNCHANGED <<poolAll, xferVars, addVars, parseVars, createVars>>

\* mutant of Unlink: head = current->next whatever prev is
UnlinkFromHead(i) == SubSeq(sync_store, i + 1, Len(sync_store))

\* remove_sync_info's unlink of entry i: prev->next = current->next, or
\* head = current->next when there is no prev
Unlink(i) ==
    SubSeq(sync_store, 1, i - 1) \o SubSeq(sync_store, i + 1, Len(sync_store))

\* remove_sync_info: unlink the first match, count--, free it; 1 when no
\* entry matches
RemoveSyncInfo(c, k) ==
    /\ rpc[c] = "idle"
    /\ ops < NumOps
    /\ ops' = ops + 1
    /\ LET i == FindIndex(k) IN
       IF i = 0
       THEN /\ Returns(c, "remove", k, <<>>, 1)
            /\ UNCHANGED <<sync_store, store_count, freed_info>>
       ELSE /\ sync_store' = Unlink(i)
            /\ store_count' = store_count - 1
            /\ freed_info' = freed_info \cup {sync_store[i].id}
            /\ Returns(c, "remove", k, <<>>, 0)
    /\ UNCHANGED <<rpc, rarg, info_ptr, next_info, store_uaf, enq>>
    /\ UNCHANGED <<poolAll, xferVars, addVars, parseVars, createVars>>

\* deactivate_sync_info, first critical section: find_sync_info returns
\* the entry or NULL
DeactivateFind(c, k) ==
    /\ rpc[c] = "idle"
    /\ ops < NumOps
    /\ ops' = ops + 1
    /\ LET i == FindIndex(k) IN
       IF i = 0
       THEN /\ Returns(c, "deactivate", k, <<>>, 1)
            /\ UNCHANGED <<rpc, rarg, info_ptr>>
       ELSE /\ rpc' = [rpc EXCEPT ![c] = "deact_write"]
            /\ rarg' = [rarg EXCEPT ![c] = <<k, <<>>>>]
            /\ info_ptr' = [info_ptr EXCEPT ![c] = sync_store[i].id]
            /\ last' = last
    /\ UNCHANGED <<sync_store, store_count, next_info, freed_info,
                   store_uaf, enq>>
    /\ UNCHANGED <<poolAll, xferVars, addVars, parseVars, createVars>>

\* mutant of Deactivated: the flag is flipped, info->active = !info->active
DeactivatedFlip(info) == [info EXCEPT !.active = ~info.active]

\* the entry after info->active = 0
Deactivated(info) == [info EXCEPT !.active = FALSE]

\* deactivate_sync_info, second critical section: info->active = 0.  An
\* entry freed in between is written after free: the write may land in an
\* entry allocated later, or nowhere
DeactivateWrite(c) ==
    /\ rpc[c] = "deact_write"
    /\ IF \E i \in 1..Len(sync_store) : sync_store[i].id = info_ptr[c]
       THEN /\ sync_store' =
                  [i \in 1..Len(sync_store) |->
                      IF sync_store[i].id = info_ptr[c]
                      THEN Deactivated(sync_store[i])
                      ELSE sync_store[i]]
            /\ store_uaf' = store_uaf
       ELSE /\ store_uaf' = TRUE
            /\ \/ sync_store' = sync_store
               \/ \E i \in 1..Len(sync_store) :
                     /\ sync_store[i].id > info_ptr[c]
                     /\ sync_store' =
                           [sync_store EXCEPT ![i] = Deactivated(@)]
    /\ Returns(c, "deactivate", rarg[c][1], <<>>, 0)
    /\ rpc' = [rpc EXCEPT ![c] = "idle"]
    /\ rarg' = [rarg EXCEPT ![c] = <<>>]
    /\ info_ptr' = [info_ptr EXCEPT ![c] = 0]
    /\ UNCHANGED <<store_count, next_info, freed_info, enq, ops>>
    /\ UNCHANGED <<poolAll, xferVars, addVars, parseVars, createVars>>

\* handle_add_command up to its find_sync_info: an entry with the key,
\* active or not, makes it return 1
HandleAddFind(c, k, t) ==
    /\ rpc[c] = "idle"
    /\ ops < NumOps
    /\ ops' = ops + 1
    /\ IF FindIndex(k) # 0
       THEN /\ Returns(c, "handle_add", k, t, 1)
            /\ UNCHANGED <<rpc, rarg>>
       ELSE /\ rpc' = [rpc EXCEPT ![c] = "hadd_add"]
            /\ rarg' = [rarg EXCEPT ![c] = <<k, t>>]
            /\ last' = last
    /\ UNCHANGED <<sync_store, store_count, info_ptr, next_info, freed_info,
                   store_uaf, enq>>
    /\ UNCHANGED <<poolAll, xferVars, addVars, parseVars, createVars>>

\* handle_add_command: create_sync_info and add_sync_info; when the add
\* does not return 0 the entry is freed and the command returns -1
HandleAddInsert(c) ==
    /\ rpc[c] = "hadd_add"
    /\ next_info' = next_info + 1
    /\ AddCritical(CreateSyncInfo(rarg[c][1], rarg[c][2]))
    /\ IF AddFinds(rarg[c][1]) # 0
       THEN /\ Returns(c, "handle_add", rarg[c][1], rarg[c][2], -1)
            /\ freed_info' = freed_info \cup {next_info + 1}
            /\ rpc' = [rpc EXCEPT ![c] = "idle"]
            /\ rarg' = [rarg EXCEPT ![c] = <<>>]
       ELSE /\ rpc' = [rpc EXCEPT ![c] = "hadd_sync"]
            /\ UNCHANGED <<last, freed_info, rarg>>
    /\ UNCHANGED <<info_ptr, store_uaf, enq, ops>>
    /\ UNCHANGED <<poolAll, xferVars, addVars, parseVars, createVars>>

\* handle_add_command: start_directory_sync fails before its loop (-1, the
\* entry stays), or walks the LIST reply and enqueues one job per name
HandleAddSync(c) ==
    /\ rpc[c] = "hadd_sync"
    /\ \/ /\ Returns(c, "handle_add", rarg[c][1], rarg[c][2], -1)
          /\ enq' = enq
       \/ \E n \in 0..NumFiles :
            /\ enq' = [enq EXCEPT ![rarg[c][1]] = @ + n]
            /\ Returns(c, "handle_add", rarg[c][1], rarg[c][2], 0)
    /\ rpc' = [rpc EXCEPT ![c] = "idle"]
    /\ rarg' = [rarg EXCEPT ![c] = <<>>]
    /\ UNCHANGED <<sync_store, store_count, info_ptr, next_info, freed_info,
                   store_uaf, ops>>
    /\ UNCHANGED <<poolAll, xferVars, addVars, parseVars, createVars>>

RegNext ==
    \/ \E c \in Callers, k \in Keys, t \in Targets : AddSyncInfo(c, k, t)
    \/ \E c \in Callers, k \in Keys : RemoveSyncInfo(c, k)
    \/ \E c \in Callers, k \in Keys : DeactivateFind(c, k)
    \/ \E c \in Callers : DeactivateWrite(c)
    \/ \E c \in Callers, k \in Keys, t \in Targets : HandleAddFind(c, k, t)
    \/ \E c \in Callers : HandleAddInsert(c)
    \/ \E c \in Callers : HandleAddSync(c)

RegStart == PoolInit /\ PairIdle /\ XferIdle /\ RegInit /\ ListIdle /\ ParseIdle

RegSpec == RegStart /\ [][RegNext]_vars

(***************************************************************************)
(* One add command end to end: handle_add_command on the dispatcher        *)
(* thread, the source's handle_list_command, start_directory_sync's single *)
(* recv and strtok loop, and the enqueue of one job per token into a pool  *)
(* created with one worker and one slot.  A second console thread cancels  *)
(* pairs and the shutdown command may arrive at any time.                  *)
(***************************************************************************)
LF == "\n"

\* the directories a source may hold: two regular files, dot-files only,
\* and a regular file next to a subdirectory and a dot-file
Directories ==
    { << [name |-> <<"a">>, reg |-> TRUE],
         [name |-> <<"b", "c">>, reg |-> TRUE] >>,
      << [name |-> <<".", "h">>, reg |-> TRUE],
         [name |-> <<".", "g">>, reg |-> TRUE] >>,
      << [name |-> <<"d">>, reg |-> FALSE],
         [name |-> <<".", "h">>, reg |-> TRUE],
         [name |-> <<"a">>, reg |-> TRUE] >> }

\* the thread that runs handle_add_command and the one that cancels, and
\* the pair the console commands name
Dispatcher == 1
Canceller == 2
AddKey == <<"h1", 1, "/a">>
AddTarget == <<"t1", 1, "/x">>

\* the source directory as the add finds it: missing, or one of Directories
ListInit ==
    /\ dir_exists \in BOOLEAN
    /\ dir_entries \in (IF dir_exists THEN Directories ELSE {<<>>})
    /\ lpc = "idle"
    /\ dir_pos = 0
    /\ listStream = <<>>
    /\ listSent = <<>>
    /\ list_buf = <<>>
    /\ lines = <<>>
    /\ jobInfo = [j \in Jobs |-> NoJob]

\* handle_list_command's test of an entry: the name does not start with
\* '.' and stat says regular file
Listed(entry) == entry.name[1] # "." /\ entry.reg

\* send(client_fd, ...) on the LIST connection
ListSend(bytes) ==
    /\ listStream' = listStream \o bytes
    /\ listSent' = listSent \o bytes

\* start_directory_sync returns ret to handle_add_command, which returns
\* 0 for 0 and -1 for anything else
SyncDirReturn(c, ret) ==
    /\ Returns(c, "handle_add", rarg[c][1], rarg[c][2],
               IF ret # 0 THEN -1 ELSE 0)
    /\ rpc' = [rpc EXCEPT ![c] = "idle"]
    /\ rarg' = [rarg EXCEPT ![c] = <<>>]

\* start_directory_sync up to its recv: connect_to_server or send_command
\* fails (-1), or the LIST command reaches the source
SyncDirConnect(c) ==
    /\ rpc[c] = "hadd_sync"
    /\ \/ /\ SyncDirReturn(c, -1)
          /\ UNCHANGED <<lpc, dir_pos, listStream, listSent>>
       \/ /\ rpc' = [rpc EXCEPT ![c] = "sync_recv"]
          /\ lpc' = "opendir"
          /\ dir_pos' = 0
          /\ listStream' = <<>>
          /\ listSent' = <<>>
          /\ UNCHANGED <<rarg, last>>
    /\ UNCHANGED <<sync_store, store_count, info_ptr, next_info, freed_info,
                   store_uaf, enq, ops>>
    /\ UNCHANGED <<dir_exists, dir_entries, capacity, list_buf, lines,
                   jobInfo>>
    /\ UNCHANGED <<poolAll, xferVars, parseVars, createVars>>

\* handle_list_command: opendir; when it fails the function returns
\* without sending anything
HandleListOpen ==
    /\ lpc = "opendir"
    /\ lpc' = IF dir_exists THEN "readdir" ELSE "done"
    /\ UNCHANGED <<dir_exists, dir_entries, dir_pos, listStream, listSent>>
    /\ UNCHANGED <<capacity, list_buf, lines, jobInfo>>
    /\ UNCHANGED <<poolAll, xferVars, regVars, parseVars, createVars>>

\* handle_list_command: one readdir; "name\n" is sent for a listed entry
HandleListEntry ==
    /\ lpc = "readdir"
    /\ dir_pos < Len(dir_entries)
    /\ dir_pos' = dir_pos + 1
    /\ LET entry == dir_entries[dir_pos + 1] IN
       IF Listed(entry)
       THEN ListSend(entry.name \o <<LF>>)
       ELSE UNCHANGED <<listStream, listSent>>
    /\ UNCHANGED <<dir_exists, dir_entries, lpc>>
    /\ UNCHANGED <<capacity, list_buf, lines, jobInfo>>
    /\ UNCHANGED <<poolAll, xferVars, regVars, parseVars, createVars>>

\* handle_list_command: readdir returns NULL, the end marker ".\n" is sent
HandleListEnd ==
    /\ lpc = "readdir"
    /\ dir_pos = Len(dir_entries)
    /\ ListSend(<<".", LF>>)
    /\ lpc' = "done"
    /\ UNCHANGED <<dir_exists, dir_entries, dir_pos>>
    /\ UNCHANGED <<capacity, list_buf, lines, jobInfo>>
    /\ UNCHANGED <<poolAll, xferVars, regVars, parseVars, createVars>>

\* the source file-server goes away while start_directory_sync waits for
\* the reply: the connection ends
ListServerDies ==
    /\ lpc \in {"opendir", "readdir", "done"}
    /\ \E c \in Callers : rpc[c] = "sync_recv"
    /\ lpc' = "dead"
    /\ UNCHANGED <<dir_exists, dir_entries, dir_pos, listStream, listSent>>
    /\ UNCHANGED <<capacity, list_buf, lines, jobInfo>>
    /\ UNCHANGED <<poolAll, xferVars, regVars, parseVars, createVars>>

\* strtok(buffer, "\n") and its later calls: the non-empty runs of bytes
\* between newlines, in order
RECURSIVE Strtok(_, _)
Strtok(bytes, token) ==
    IF bytes = <<>>
    THEN IF token = <<>> THEN <<>> ELSE <<token>>
    ELSE IF Head(bytes) = LF
    THEN (IF token = <<>> THEN <<>> ELSE <<token>>) \o Strtok(Tail(bytes), <<>>)
    ELSE Strtok(Tail(bytes), Append(token, Head(bytes)))

\* start_directory_sync's one recv: <= 0 when the connection has ended
\* (-1), else some of the bytes that have arrived, which strtok then splits
SyncDirRecv(c) ==
    /\ rpc[c] = "sync_recv"
    /\ \/ /\ listStream = <<>>
          /\ lpc = "dead"
          /\ SyncDirReturn(c, -1)
          /\ UNCHANGED <<listStream, list_buf, lines>>
       \/ \E n \in 1..Len(listStream) :
            /\ list_buf' = Take(listStream, n)
            /\ listStream' = Drop(listStream, n)
            /\ lines' = Strtok(Take(listStream, n), <<>>)
            /\ rpc' = [rpc EXCEPT ![c] = "sync_loop"]
            /\ UNCHANGED <<rarg, last>>
    /\ UNCHANGED <<sync_store, store_count, info_ptr, next_info, freed_info,
                   store_uaf, enq, ops>>
    /\ UNCHANGED <<dir_exists, dir_entries, lpc, dir_pos, listSent, capacity,
                   jobInfo>>
    /\ UNCHANGED <<poolAll, xferVars, parseVars, createVars>>

\* a job has been filled in for the enqueue call that comes next
JobStaged == created < NumJobs /\ jobInfo[created + 1] # NoJob

\* the arguments start_directory_sync hands to create_sync_job: the
\* entry's endpoints and the token; create_sync_job copies them
JobFields(info, line) ==
    [key |-> info.key, target |-> info.target, filename |-> line]

\* start_directory_sync's loop test and the arguments of create_sync_job:
\* the loop ends at the token "." or when the tokens are out, and the
\* function returns 0 whatever its enqueue calls returned
SyncDirLine(c) ==
    /\ rpc[c] = "sync_loop"
    /\ ppc[c] = "idle"
    /\ ~JobStaged
    /\ IF lines = <<>> \/ Head(lines) = <<".">>
       THEN /\ SyncDirReturn(c, 0)
            /\ lines' = <<>>
            /\ jobInfo' = jobInfo
       ELSE /\ created < NumJobs
            /\ FindIndex(rarg[c][1]) # 0
            /\ jobInfo' = [jobInfo EXCEPT ![created + 1] =
                             JobFields(sync_store[FindIndex(rarg[c][1])],
                                       Head(lines))]
            /\ lines' = Tail(lines)
            /\ UNCHANGED <<rpc, rarg, last>>
    /\ UNCHANGED <<sync_store, store_count, info_ptr, next_info, freed_info,
                   store_uaf, enq, ops>>
    /\ UNCHANGED <<listVars, capacity, list_buf>>
    /\ UNCHANGED <<poolAll, xferVars, parseVars, createVars>>

\* start_directory_sync's create_sync_job and enqueue_sync_job for the
\* token at hand
SyncDirEnqueue(c) ==
    /\ rpc[c] = "sync_loop"
    /\ JobStaged
    /\ CreateAndEnqueue(c)

AddNext ==
    \/ HandleAddFind(Dispatcher, AddKey, AddTarget)
    \/ HandleAddInsert(Dispatcher)
    \/ SyncDirConnect(Dispatcher)
    \/ HandleListOpen
    \/ HandleListEntry
    \/ HandleListEnd
    \/ ListServerDies
    \/ SyncDirRecv(Dispatcher)
    \/ SyncDirLine(Dispatcher)
    \/ SyncDirEnqueue(Dispatcher)
    \/ EnqueueWake(Dispatcher)
    \/ ProducerFree(Dispatcher)
    \/ DequeueEnter(1)
    \/ DequeueWake(1)
    \/ WorkerFinish(1)
    \/ SpuriousWake
    \/ SignalShutdown
    \/ DeactivateFind(Canceller, AddKey)
    \/ DeactivateWrite(Canceller)

\* create_thread_pool(1, 1): one worker, one slot
AddStart ==
    /\ CreateThreadPool(1, 1) /\ PairIdle /\ XferIdle /\ RegInit /\ ListInit
    /\ ParseIdle

AddSpec == AddStart /\ [][AddNext]_vars

\* the dispatcher thread and the worker keep running while they can take a
\* step; nothing promises a command, a LIST reply or a spurious wakeup
AddFairSpec ==
    /\ AddSpec
    /\ WF_vars(DequeueEnter(1) \/ DequeueWake(1) \/ WorkerFinish(1))
    /\ WF_vars(SyncDirLine(Dispatcher) \/ SyncDirEnqueue(Dispatcher)
                 \/ EnqueueWake(Dispatcher) \/ ProducerFree(Dispatcher))

(***************************************************************************)
(* parse_directory_spec and parse_config_line (src/src/utils.c), applied   *)
(* to every text over SpecChars of at most MaxSpecLen characters and to    *)
(* every line of at most three of ConfigTokens.                            *)
(***************************************************************************)
SpecChars == {"/", "a", "@", ":", "0", "1"}
SpecTexts == UNION {[1..n -> SpecChars] : n \in 0..MaxSpecLen}
ConfigTokens ==
    { <<"/", "@", "a", ":", "1">>, <<"a", "@", "a", ":", "1", "0">>,
      <<"/", "a", ":", "1">>, <<"@", ":", "1", "a">> }
ConfigLines == UNION {[1..n -> ConfigTokens] : n \in 0..3}

\* an output parameter the call has not stored to
Unset == <<"unset">>

\* strchr(text + from - 1, ch): the index of the first ch at or after from,
\* 0 when there is none
Strchr(text, from, ch) ==
    IF \E i \in from..Len(text) : text[i] = ch
    THEN CHOOSE i \in from..Len(text) :
            /\ text[i] = ch
            /\ \A k \in from..(i - 1) : text[k] # ch
    ELSE 0

\* the value of a decimal digit, -1 for any other character
DigitValue(ch) ==
    CASE ch = "0" -> 0 [] ch = "1" -> 1 [] ch = "2" -> 2 [] ch = "3" -> 3
      [] ch = "4" -> 4 [] ch = "5" -> 5 [] ch = "6" -> 6 [] ch = "7" -> 7
      [] ch = "8" -> 8 [] ch = "9" -> 9 [] OTHER -> -1

\* atoi(text): the number the leading digits spell, 0 when there are none;
\* what follows the digits is ignored
RECURSIVE AtoiFrom(_, _)
AtoiFrom(text, acc) ==
    IF text = <<>> \/ DigitValue(Head(text)) < 0 THEN acc
    ELSE AtoiFrom(Tail(text), 10 * acc + DigitValue(Head(text)))

Atoi(text) == AtoiFrom(text, 0)

\* parse_directory_spec(spec, host, port, dir): its return value and what
\* it has stored through its three pointers
ParseDirectorySpec(spec) ==
    LET at_pos == Strchr(spec, 1, "@")
        dir_len == at_pos - 1
        colon_pos == Strchr(spec, at_pos + 1, ":")
        host_len == colon_pos - (at_pos + 1)
        dir == SubSeq(spec, 1, dir_len)
        host == SubSeq(spec, at_pos + 1, colon_pos - 1)
        port == Atoi(SubSeq(spec, colon_pos + 1, Len(spec)))
    IN  IF at_pos = 0 \/ dir_len >= MAX_PATH
        THEN [ret |-> -1, dir |-> Unset, host |-> Unset, port |-> Unset]
        ELSE IF colon_pos = 0 \/ host_len >= MAX_HOST_SIZE
        THEN [ret |-> -1, dir |-> dir, host |-> Unset, port |-> Unset]
        ELSE [ret |-> IF port <= 0 THEN -1 ELSE 0,
              dir |-> dir, host |-> host, port |-> port]

\* parse_config_line(line, ...): sscanf("%s %s") takes the first two
\* tokens of the line; both are parsed, the target only when the source
\* parsed
ParseConfigLine(line) ==
    IF Len(line) < 2
    THEN [ret |-> -1, source |-> Unset, target |-> Unset]
    ELSE LET source == ParseDirectorySpec(line[1])
             target == ParseDirectorySpec(line[2])
         IN  IF source.ret # 0
             THEN [ret |-> -1, source |-> source, target |-> Unset]
             ELSE [ret |-> IF target.ret # 0 THEN -1 ELSE 0,
                   source |-> source, target |-> target]

\* a caller hands a text to parse_directory_spec or a line to
\* parse_config_line
ParseInit ==
    \/ \E spec \in SpecTexts :
          parse = [pc |-> "call", fn |-> "parse_directory_spec", arg |-> spec]
    \/ \E line \in ConfigLines :
          parse = [pc |-> "call", fn |-> "parse_config_line", arg |-> line]

\* parse_directory_spec runs and returns
ParseSpecCall ==
    /\ parse.pc = "call"
    /\ parse.fn = "parse_directory_spec"
    /\ parse' = [pc |-> "ret", fn |-> parse.fn, arg |-> parse.arg,
                 out |-> ParseDirectorySpec(parse.arg)]
    /\ UNCHANGED <<poolAll, xferVars, regVars, addVars, createVars>>

\* parse_config_line runs and returns
ParseLineCall ==
    /\ parse.pc = "call"
    /\ parse.fn = "parse_config_line"
    /\ parse' = [pc |-> "ret", fn |-> parse.fn, arg |-> parse.arg,
                 out |-> ParseConfigLine(parse.arg)]
    /\ UNCHANGED <<poolAll, xferVars, regVars, addVars, createVars>>

ParseNext == ParseSpecCall \/ ParseLineCall

ParseStart ==
    PoolInit /\ PairIdle /\ XferIdle /\ RegInit /\ ListIdle /\ ParseInit

ParseSpec == ParseStart /\ [][ParseNext]_vars

(***************************************************************************)
(* create_thread_pool's loop over pthread_create, and the workers it has   *)
(* started (src/src/thread_pool.c).  On a failed pthread_create the flag   *)
(* is set and queue_not_empty is broadcast without queue_mutex held, so    *)
(* these two steps interleave with a worker that holds the mutex between   *)
(* its test of the loop condition and its pthread_cond_wait: the worker's  *)
(* dequeue_sync_job is modelled one call at a time.  No job is enqueued,   *)
(* the pool has not been returned to anyone.                               *)
(***************************************************************************)
\* create_thread_pool(n, size) after the three init calls, before the
\* first pthread_create
CreateInit ==
    /\ capacity \in 1..buffer_size
    /\ job_queue_head = NULL
    /\ job_queue_tail = NULL
    /\ queue_size = 0
    /\ shutdown = FALSE
    /\ next = [j \in Jobs |-> NULL]
    /\ wpc = [w \in Workers |-> "none"]
    /\ wjob = [w \in Workers |-> NULL]
    /\ ppc = [p \in Producers |-> "idle"]
    /\ pjob = [p \in Producers |-> NULL]
    /\ pblocked = [p \in Producers |-> FALSE]
    /\ dpc = "none"
    /\ \E n \in Workers : cpc = [at |-> "create", n |-> n, i |-> 0, j |-> 0]
    /\ created = 0
    /\ freed = [j \in Jobs |-> 0]
    /\ freedBy = [j \in Jobs |-> <<"none", 0>>]
    /\ executed = [j \in Jobs |-> 0]
    /\ enqOrder = <<>>
    /\ deqSeq = <<>>
    /\ queuedAtShutdown = {}
    /\ heldAtShutdown = {}
    /\ waitersAtShutdown = {}

\* the thread that holds queue_mutex, if any
MutexHeld == \E w \in Workers : wpc[w] \in {"locked", "to_wait"}

CreateFrame ==
    /\ UNCHANGED <<job_queue_head, job_queue_tail, queue_size, next, wjob,
                   ppc, pjob, pblocked, dpc, ghostVars, pairVars>>
    /\ UNCHANGED <<xferVars, regVars, addVars, parseVars>>

\* pthread_create(&pool->threads[i], ...) returns 0: worker i + 1 runs
PthreadCreate ==
    /\ cpc.at = "create"
    /\ cpc.i < cpc.n
    /\ wpc' = [wpc EXCEPT ![cpc.i + 1] = "dequeue"]
    /\ cpc' = [cpc EXCEPT !.i = @ + 1]
    /\ shutdown' = shutdown
    /\ CreateFrame

\* the loop ends: the pool is returned
CreateReturnsPool ==
    /\ cpc.at = "create"
    /\ cpc.i = cpc.n
    /\ cpc' = [cpc EXCEPT !.at = "pool"]
    /\ UNCHANGED <<wpc, shutdown>>
    /\ CreateFrame

\* pthread_create fails for thread i: pool->shutdown = 1, no lock taken
PthreadCreateFails ==
    /\ cpc.at = "create"
    /\ cpc.i < cpc.n
    /\ shutdown' = TRUE
    /\ cpc' = [cpc EXCEPT !.at = "broadcast"]
    /\ wpc' = wpc
    /\ CreateFrame

\* pthread_cond_broadcast(&pool->queue_not_empty), no lock taken: the
\* threads that are in pthread_cond_wait wake
CreateBroadcast ==
    /\ cpc.at = "broadcast"
    /\ wpc' = BroadcastNotEmpty(wpc)
    /\ cpc' = [cpc EXCEPT !.at = "join"]
    /\ shutdown' = shutdown
    /\ CreateFrame

\* pthread_join(pool->threads[j], NULL) returns: that worker has exited
CreateJoin ==
    /\ cpc.at = "join"
    /\ cpc.j < cpc.i
    /\ wpc[cpc.j + 1] = "exited"
    /\ cpc' = [cpc EXCEPT !.j = @ + 1]
    /\ UNCHANGED <<wpc, shutdown>>
    /\ CreateFrame

\* every started thread is joined: the destroys, the frees, return NULL
CreateReturnsNull ==
    /\ cpc.at = "join"
    /\ cpc.j = cpc.i
    /\ cpc' = [cpc EXCEPT !.at = "null"]
    /\ UNCHANGED <<wpc, shutdown>>
    /\ CreateFrame

\* dequeue_sync_job: pthread_mutex_lock returns, at the call or inside
\* pthread_cond_wait after a wake
WorkerLock(w) ==
    /\ wpc[w] \in {"dequeue", "woken"}
    /\ ~MutexHeld
    /\ wpc' = [wpc EXCEPT ![w] = "locked"]
    /\ UNCHANGED <<cpc, shutdown>>
    /\ CreateFrame

\* the loop condition and the test after it, with the mutex held: the
\* worker goes on to pthread_cond_wait, or unlocks and returns NULL, on
\* which worker_thread leaves its loop (the queue is empty throughout)
WorkerTest(w) ==
    /\ wpc[w] = "locked"
    /\ wpc' = [wpc EXCEPT ![w] = IF DequeueMustWait THEN "to_wait"
                                  ELSE "exited"]
    /\ UNCHANGED <<cpc, shutdown>>
    /\ CreateFrame

\* pthread_cond_wait: the mutex is released and the thread blocks
WorkerCondWait(w) ==
    /\ wpc[w] = "to_wait"
    /\ wpc' = [wpc EXCEPT ![w] = "waiting"]
    /\ UNCHANGED <<cpc, shutdown>>
    /\ CreateFrame

CreateNext ==
    \/ PthreadCreate
    \/ CreateReturnsPool
    \/ PthreadCreateFails
    \/ CreateBroadcast
    \/ CreateJoin
    \/ CreateReturnsNull
    \/ \E w \in Workers : WorkerLock(w)
    \/ \E w \in Workers : WorkerTest(w)
    \/ \E w \in Workers : WorkerCondWait(w)

CreateStart ==
    /\ CreateInit
    /\ PairIdle
    /\ XferIdle
    /\ RegInit
    /\ ListIdle
    /\ ParseIdle

CreateSpec == CreateStart /\ [][CreateNext]_vars

(***************************************************************************)
(* Scheduling: a runnable thread eventually runs, sync_single_file         *)
(* returns, and a join whose threads have exited returns.  Nothing         *)
(* promises a spurious wakeup, a further add or a shutdown command.        *)
(***************************************************************************)
\* the runs checked for progress start with the odd jobs unreachable;
\* no step of the pool reads a transfer's outcome
FairStart == Init /\ unreachable = {j \in Jobs : j % 2 = 1}

FairSpec ==
    /\ FairStart
    /\ [][Next]_vars
    /\ \A w \in Workers :
          WF_vars(DequeueEnter(w) \/ DequeueWake(w) \/ WorkerFinish(w))
    /\ \A p \in Producers : WF_vars(EnqueueWake(p) \/ ProducerFree(p))
    /\ WF_vars(DestroyJoin)

(***************************************************************************)
(* Properties                                                              *)
(***************************************************************************)
DeqJobs == [i \in 1..Len(deqSeq) |-> deqSeq[i][2]]
DeqJobsOf(w) == SelectSeq(deqSeq, LAMBDA e : e[1] = w)
PosIn(seq, x) == CHOOSE i \in 1..Len(seq) : seq[i] = x
Range(seq) == {seq[i] : i \in 1..Len(seq)}

\* C1: in every reachable state, under every interleaving of enqueue,
\* dequeue and shutdown, 0 <= queue_size <= buffer_size.
C1_SizeWithinCapacity ==
    /\ 0 <= queue_size
    /\ queue_size <= buffer_size

C1_Witness ==
    /\ queue_size = buffer_size
    /\ \E p \in Producers : ppc[p] = "waiting"
    /\ Len(deqSeq) > 0

\* C2: jobs leave the queue in exactly the order in which their enqueues
\* succeeded, so the jobs any one worker dequeued are in enqueue order.
C2_Fifo ==
    /\ Len(deqSeq) <= Len(enqOrder)
    /\ DeqJobs = SubSeq(enqOrder, 1, Len(deqSeq))
    /\ \A w \in Workers :
          LET mine == DeqJobsOf(w) IN
          \A a, b \in 1..Len(mine) :
              a < b => PosIn(enqOrder, mine[a][2]) < PosIn(enqOrder, mine[b][2])

C2_Witness ==
    /\ Len(deqSeq) = NumJobs
    /\ \E w \in Workers : Len(DeqJobsOf(w)) >= 2
    /\ \E i \in 1..Len(enqOrder) : enqOrder[i] # i

\* C3: the shutdown flag is never cleared, and while it is set no step
\* appends a job: every enqueue call, new or woken from a full queue,
\* fails, so the queue only shrinks.
C3_ShutdownRejectsEnqueue ==
    [][shutdown =>
         /\ shutdown'
         /\ enqOrder' = enqOrder
         /\ QueueJobs' \subseteq QueueJobs
         /\ queue_size' <= queue_size
         /\ \A p \in Producers :
               ppc[p] = "woken" /\ ppc'[p] # "woken" => ppc'[p] = "failed"]_vars

C3_Witness ==
    /\ shutdown
    /\ \E p \in Producers :
          <<"producer", p>> \in waitersAtShutdown /\ ppc[p] = "failed"
    /\ \E q \in Producers : ppc[q] = "failed" /\ ~pblocked[q]

C5_QueuedJobsAbandoned ==
    \A j \in queuedAtShutdown :
        /\ executed[j] = 0
        /\ dpc = "done" => freedBy[j] = <<"destroy", 0>>

\* C6: a job a worker holds when shutdown is signalled is either still in
\* that worker's hands, unexecuted and unfreed, or was executed once and
\* then freed once by that same worker.
C6_InFlightCompletes ==
    \A e \in heldAtShutdown :
        \/ /\ wpc[e[1]] = "exec"
           /\ wjob[e[1]] = e[2]
           /\ executed[e[2]] = 0
           /\ freed[e[2]] = 0
        \/ /\ executed[e[2]] = 1
           /\ freed[e[2]] = 1
           /\ freedBy[e[2]] = <<"worker", e[1]>>

C6_Witness ==
    /\ dpc = "done"
    /\ Cardinality(heldAtShutdown) = Cardinality(Workers)

\* C7: once the flag is set every worker eventually exits and every
\* blocked enqueue returns, the joins of destroy_thread_pool complete, and
\* the queue is empty afterwards.
C7_ShutdownTerminates ==
    /\ shutdown ~> (/\ \A w \in Workers : wpc[w] = "exited"
                    /\ \A p \in Producers : ppc[p] \notin {"waiting", "woken"})
    /\ (dpc = "joining") ~> (dpc = "done")
    /\ [](dpc = "done" =>
            /\ job_queue_head = NULL
            /\ job_queue_tail = NULL
            /\ queue_size = 0)

C7_Witness ==
    /\ dpc = "done"
    /\ \E p \in Producers : <<"producer", p>> \in waitersAtShutdown
    /\ queuedAtShutdown # {}
    /\ \A w \in Workers : wpc[w] = "exited"

\* C8: no job is freed twice, and when destroy_thread_pool has returned
\* every created job has been freed exactly once: by the worker that
\* executed it, by the producer whose enqueue failed, or by the drain.
C8_FreedExactlyOnce ==
    \A j \in Jobs :
        /\ freed[j] <= 1
        /\ j > created => freed[j] = 0
        /\ (dpc = "done" /\ j <= created) =>
              /\ freed[j] = 1
              /\ \/ /\ freedBy[j][1] = "worker"
                    /\ executed[j] = 1
                    /\ <<freedBy[j][2], j>> \in Range(deqSeq)
                 \/ /\ freedBy[j][1] = "producer"
                    /\ j \notin Range(enqOrder)
                 \/ /\ freedBy[j][1] = "destroy"
                    /\ j \in Range(enqOrder)
                    /\ executed[j] = 0

C8_Witness ==
    /\ dpc = "done"
    /\ created = NumJobs
    /\ \E j \in Jobs : freedBy[j][1] = "worker"
    /\ \E j \in Jobs : freedBy[j][1] = "producer"

\* C9: whatever the segmentation of the streams into reads, a call that
\* returns success from a source that delivered the whole file leaves the
\* target file equal to the source file, byte for byte.
C9_RoundTrip ==
    (mpc = "done" /\ sync_result = 0 /\ srcAlive /\ tpc = "closed")
        => tgtFile = Data(srcFile)

\* C10: a call returns success only if the payload bytes it forwarded add
\* up to the size the source announced; a short read makes it fail.
C10_SuccessMeansWholeFile ==
    (mpc = "done" /\ sync_result = 0) => total_transferred = file_size

\* the bytes after an open frame are whole chunk frames, each a header
\* "PUSH <path> <k> " with k > 0 and exactly k payload bytes, and at most
\* one close frame, which is last
RECURSIVE FramedBody(_)
FramedBody(s) ==
    IF s = <<>> THEN TRUE
    ELSE IF s[1][1] # "push" THEN FALSE
    ELSE LET k == s[1][2] IN
         IF k = 0 THEN s = CloseFrame
         ELSE /\ k > 0
              /\ Len(s) >= k + 2
              /\ s[2] = SP
              /\ \A i \in 3..(k + 2) : s[i][1] = "d"
              /\ FramedBody(Drop(s, k + 2))

WellFramed(s) ==
    \/ s = <<>>
    \/ /\ Len(s) >= 2
       /\ Take(s, 2) = OpenFrame
       /\ FramedBody(Drop(s, 2))

EndsWithClose(s) == Len(s) >= 2 /\ Drop(s, Len(s) - 2) = CloseFrame

\* C11: what one call has sent on the target connection is one open frame,
\* then chunk frames with k > 0 each followed by exactly k payload bytes
\* (none for a file of size 0), then one close frame, which a call that
\* returns success has sent.
C11_FrameOrder ==
    /\ WellFramed(tgtSent)
    /\ (mpc = "done" /\ sync_result = 0) => EndsWithClose(tgtSent)
    /\ (mpc = "done" /\ file_size = 0) =>
          tgtSent \in {<<>>, OpenFrame \o CloseFrame}

\* C12: the command parser of handle_client_connection is never handed
\* payload bytes: every byte that follows a chunk header is consumed as
\* file data.
C12_PayloadNeverParsed == ~cmdSawPayload

\* C13: no file is open when a connection is accepted, and a chunk is only
\* ever written through a descriptor opened on the same connection.
C13_DescriptorPerConnection ==
    /\ ~openAtAccept
    /\ tpc = "chunk" => fdConn = conn

\* C14: a call during which a send to the target failed or wrote less than
\* asked returns failure, and no header follows a chunk whose payload was
\* not written in full.
C14_SendFaultFails ==
    /\ (mpc = "done" /\ sendFault) => sync_result = -1
    /\ WellFramed(tgtSent)

IsPrefix(s, t) == Len(s) <= Len(t) /\ s = Take(t, Len(s))

\* C16: handle_pull_command sends nothing but "<size> " and the file's
\* bytes in order when the file opened, "-1 <message>" when it did not;
\* once it has returned on a live connection it has sent all of it, so
\* exactly size bytes follow the header.
C16_PullReply ==
    /\ spc = "idle" => srcSent = <<>>
    /\ spc # "idle" => IsPrefix(srcSent, PullReply(pull_fd))
    /\ (spc = "done" /\ srcAlive) => srcSent = PullReply(pull_fd)
    /\ (spc = "send") => srcSent \o pull_buf = PullReply(pull_fd)

C16_Witness ==
    /\ spc = "done"
    /\ srcAlive
    /\ pull_fd
    /\ Len(srcFile) = 2
    /\ mpc = "first_recv"
    /\ Len(srcStream) = 4

LogErrors == {<<"PULL", "ERROR">>, <<"PUSH", "ERROR">>}
LogSuccess == {<<"PULL", "SUCCESS">>, <<"PUSH", "SUCCESS">>}

\* C19: a call that returned success has written the PULL/SUCCESS and the
\* PUSH/SUCCESS line and no ERROR line; a call that returned failure has
\* written an ERROR line and no SUCCESS line.
C19_LogMatchesOutcome ==
    mpc = "done" =>
       /\ sync_result = 0 => (LogSuccess \subseteq log /\ log \cap LogErrors = {})
       /\ sync_result = -1 => (log \cap LogErrors # {} /\ log \cap LogSuccess = {})

FailedJobs == {j \in Jobs : executed[j] >= 1 /\ SyncOutcome(j) # 0}

\* C17: whatever sync_single_file returns, the worker frees the job once
\* and goes back to dequeue without changing the queue; no job is executed
\* or enqueued twice; and when the pool has been destroyed every job that
\* was enqueued has been executed, those behind a failed job included.
C17_ErrorIsolation ==
    /\ [][\A w \in Workers :
            (wpc[w] = "exec" /\ wpc'[w] # "exec") =>
               /\ wpc'[w] = "dequeue"
               /\ executed'[wjob[w]] = 1
               /\ freed'[wjob[w]] = 1
               /\ enqOrder' = enqOrder
               /\ QueueChain' = QueueChain]_vars
    /\ [](\A j \in Jobs :
            /\ executed[j] <= 1
            /\ Cardinality({i \in 1..Len(enqOrder) : enqOrder[i] = j}) <= 1)
    /\ [](dpc = "done" => \A j \in Range(enqOrder) : executed[j] = 1)

C17_Witness ==
    /\ dpc = "done"
    /\ \E w \in Workers :
         LET mine == DeqJobsOf(w) IN
         \E a, b \in 1..Len(mine) :
            /\ a < b
            /\ SyncOutcome(mine[a][2]) = -1
            /\ SyncOutcome(mine[b][2]) = 0
            /\ executed[mine[b][2]] = 1
    /\ Cardinality(FailedJobs) >= 2

\* C18: the pair's error_count equals the number of its jobs whose transfer
\* failed.
C18_ErrorCountCountsFailures == error_count = Cardinality(FailedJobs)

KeyPresent(k) == \E i \in 1..Len(sync_store) : sync_store[i].key = k

\* C20: an add_sync_info for a source key that is in the registry returns 1
\* and changes neither the entries nor the count, whatever target it names;
\* a handle_add_command that finds the key returns 1, and one whose
\* add_sync_info finds it returns -1, both without a change to the registry
\* and without enqueuing a job.
C20_AddIdempotent ==
    [][(last'.seq # last.seq /\ KeyPresent(last'.key)) =>
         /\ last'.op = "add" =>
               /\ last'.ret = 1
               /\ sync_store' = sync_store
               /\ store_count' = store_count
               /\ enq' = enq
         /\ (last'.op = "handle_add" /\ rpc[last'.caller] = "idle") =>
               /\ last'.ret = 1
               /\ sync_store' = sync_store
               /\ store_count' = store_count
               /\ enq' = enq
         /\ (last'.op = "handle_add" /\ rpc[last'.caller] = "hadd_add") =>
               /\ last'.ret = -1
               /\ sync_store' = sync_store
               /\ store_count' = store_count
               /\ enq' = enq]_vars

C20_Witness ==
    /\ last.op = "add"
    /\ last.ret = 1
    /\ store_count = 2
    /\ Len(sync_store) = 2
    /\ sync_store[2].key = last.key
    /\ sync_store[2].target # last.target
    /\ sync_store[2].active

EntriesOf(k) == {i \in 1..Len(sync_store) : sync_store[i].key = k}

\* C21: under every interleaving of add_sync_info, remove_sync_info,
\* deactivate_sync_info and handle_add_command calls, no two entries of
\* the registry have the same (source_host, source_port, source_dir).
C21_KeyUnique ==
    \A i, j \in 1..Len(sync_store) :
        sync_store[i].key = sync_store[j].key => i = j

C21_Witness ==
    /\ Len(sync_store) = 2
    /\ store_count = 2
    /\ last.op = "handle_add"
    /\ last.ret = -1
    /\ freed_info # {}

\* C22 as stated: a cancel of a key whose entry a cancel has already made
\* inactive returns 1, and an inactive entry stays inactive.
C22_RepeatedCancelNotFound ==
    [][/\ \A c \in Callers :
            (rpc[c] = "idle" /\ rpc'[c] = "deact_write") =>
               \A i \in 1..Len(sync_store) :
                  sync_store[i].id = info_ptr'[c] => sync_store[i].active
       /\ \A i \in 1..Len(sync_store), j \in 1..Len(sync_store') :
            (sync_store[i].id = sync_store'[j].id /\ ~sync_store[i].active)
               => ~sync_store'[j].active]_vars

\* C22 amended: deactivate_sync_info returns 1 only for a key that has no
\* entry; for a key that has one it returns 0 every time, the entry is
\* inactive afterwards, and no step makes an inactive entry active.
C22_RepeatedCancelReturnsZero ==
    [][/\ \A c \in Callers :
            (rpc[c] = "deact_write" /\ rpc'[c] = "idle") =>
               /\ last'.op = "deactivate" /\ last'.ret = 0
               /\ \A j \in 1..Len(sync_store') :
                     sync_store'[j].id = info_ptr[c] => ~sync_store'[j].active
       /\ (last'.seq # last.seq /\ last'.op = "deactivate" /\ last'.ret = 1)
             => ~KeyPresent(last'.key)
       /\ \A i \in 1..Len(sync_store), j \in 1..Len(sync_store') :
            (sync_store[i].id = sync_store'[j].id /\ ~sync_store[i].active)
               => ~sync_store'[j].active]_vars

C22_Witness ==
    /\ last.op = "deactivate"
    /\ last.ret = 0
    /\ last.seq = 3
    /\ ops = 3
    /\ ~store_uaf
    /\ Len(sync_store) = 1
    /\ sync_store[1].key = last.key
    /\ ~sync_store[1].active

\* C23: remove_sync_info and deactivate_sync_info called with a key that has
\* no entry return 1 and change neither the entries nor the count; a
\* remove_sync_info of a key that has an entry returns 0, takes exactly
\* that entry out and lowers the count by one.
C23_RemoveAndNotFound ==
    [][(last'.seq # last.seq /\ rpc[last'.caller] = "idle"
          /\ last'.op \in {"remove", "deactivate"}) =>
         IF ~KeyPresent(last'.key)
         THEN /\ last'.ret = 1
              /\ sync_store' = sync_store
              /\ store_count' = store_count
         ELSE /\ last'.op = "remove"
              /\ last'.ret = 0
              /\ store_count' = store_count - 1
              /\ Len(sync_store') = Len(sync_store) - 1
              /\ \A j \in 1..Len(sync_store') : sync_store'[j].key # last'.key
              /\ sync_store' = SelectSeq(sync_store,
                                  LAMBDA e : e.key # last'.key)]_vars

C23_Witness ==
    /\ last.op = "remove"
    /\ last.ret = 0
    /\ Len(sync_store) = 1
    /\ store_count = 1
    /\ freed_info = {1}
    /\ sync_store[1].id = 2
    /\ sync_store[1].key # last.key

\* C30 as stated: an add or a handle_add_command whose key has an inactive
\* entry leaves that entry active; only one that finds an active entry
\* returns the duplicate status.
C30_AddReactivates ==
    [][(last'.seq # last.seq /\ last'.op \in {"add", "handle_add"}
          /\ rpc[last'.caller] = "idle"
          /\ \E i \in EntriesOf(last'.key) : ~sync_store[i].active) =>
         /\ \A j \in 1..Len(sync_store') :
               sync_store'[j].key = last'.key => sync_store'[j].active
         /\ last'.ret # 1]_vars

PairActive(k) == \E i \in EntriesOf(k) : sync_store[i].active
Last(seq) == seq[Len(seq)]
Rejected == {j \in Jobs : freedBy[j][1] = "producer"}
EnqNames == [i \in 1..Len(enqOrder) |-> jobInfo[enqOrder[i]].filename]
AddReturned == last.op = "handle_add" /\ last.ret = 0
CancelStep ==
    \/ info_ptr' # info_ptr
    \/ last'.seq # last.seq /\ last'.op = "deactivate"

RECURSIVE ListNames(_)
ListNames(entries) ==
    IF entries = <<>> THEN <<>>
    ELSE (IF Listed(Head(entries)) THEN <<Head(entries).name>> ELSE <<>>)
            \o ListNames(Tail(entries))

RECURSIVE ReplyOf(_)
ReplyOf(names) ==
    IF names = <<>> THEN <<".", LF>>
    ELSE Head(names) \o <<LF>> \o ReplyOf(Tail(names))

RECURSIVE UpToSentinel(_)
UpToSentinel(tokens) ==
    IF tokens = <<>> \/ Head(tokens) = <<".">> THEN <<>>
    ELSE <<Head(tokens)>> \o UpToSentinel(Tail(tokens))

C25_SnapshotSemantics ==
    /\ [][CancelStep =>
            /\ UNCHANGED <<poolVars, wjob, pjob, jobInfo, enqOrder, deqSeq,
                           executed, freed>>]_vars
    /\ [][\A j \in Jobs :
            jobInfo[j] # NoJob =>
               /\ jobInfo'[j] = jobInfo[j]
               /\ jobInfo[j].key = AddKey
               /\ jobInfo[j].target = AddTarget]_vars
    /\ [](\A j \in Jobs : freedBy[j][1] = "worker" => executed[j] = 1)

C25_Witness ==
    /\ last.op = "deactivate"
    /\ last.ret = 0
    /\ ~PairActive(AddKey)
    /\ Len(enqOrder) = 2
    /\ executed[1] = 1
    /\ executed[2] = 1
    /\ jobInfo[2] = [key |-> AddKey, target |-> AddTarget,
                     filename |-> <<"b", "c">>]

\* C26 as stated: when an add has returned success and no shutdown has
\* rejected a job, the filenames of the jobs enqueued are the names of the
\* LIST reply, one job each, in order.
C26_JobsMatchListing ==
    (AddReturned /\ ~shutdown) => EnqNames = ListNames(dir_entries)

\* C27 as stated: when handle_list_command has returned, the bytes it sent
\* are the names of the regular files that do not start with '.', one per
\* line, and then ".\n" - also for a directory that cannot be opened.
C27_ListEndsWithSentinel ==
    lpc = "done" => listSent = ReplyOf(ListNames(dir_entries))

C31_QueueShape ==
    /\ (job_queue_head = NULL) <=> (job_queue_tail = NULL)
    /\ (job_queue_head = NULL) <=> (queue_size = 0)
    /\ queue_size = Len(QueueChain)
    /\ Cardinality(QueueJobs) = Len(QueueChain)
    /\ job_queue_tail # NULL =>
          /\ QueueChain[Len(QueueChain)] = job_queue_tail
          /\ next[job_queue_tail] = NULL

C31_Witness ==
    /\ queue_size = 2
    /\ job_queue_head = 3
    /\ job_queue_tail = 4
    /\ Len(deqSeq) = 2
    /\ shutdown

IsDigits(text) ==
    /\ text # <<>>
    /\ \A i \in 1..Len(text) : DigitValue(text[i]) >= 0

\* the texts of the form <dir>@<host>:<port>, split at the first '@' and
\* the first ':' after it, whose port is a positive decimal number
WellFormedSpec(text) ==
    \E i \in 1..Len(text) : \E j \in (i + 1)..Len(text) :
        /\ text[i] = "@"
        /\ \A k \in 1..(i - 1) : text[k] # "@"
        /\ text[j] = ":"
        /\ \A k \in (i + 1)..(j - 1) : text[k] # ":"
        /\ IsDigits(SubSeq(text, j + 1, Len(text)))
        /\ Atoi(SubSeq(text, j + 1, Len(text))) > 0

SpecParts(text) ==
    LET i == Strchr(text, 1, "@")
        j == Strchr(text, i + 1, ":")
    IN  [dir |-> SubSeq(text, 1, i - 1), host |-> SubSeq(text, i + 1, j - 1),
         port |-> Atoi(SubSeq(text, j + 1, Len(text)))]

\* C32 as stated: parse_directory_spec returns 0 with the three parts for
\* a text of the form <dir>@<host>:<port> with a positive decimal port and
\* -1 for every other text; parse_config_line returns 0 only for a line
\* whose first two tokens are of that form.
C32_ParseAcceptsExactlyTheGrammar ==
    parse.pc = "ret" =>
       /\ parse.fn = "parse_directory_spec" =>
             IF WellFormedSpec(parse.arg)
             THEN /\ parse.out.ret = 0
                  /\ parse.out.dir = SpecParts(parse.arg).dir
                  /\ parse.out.host = SpecParts(parse.arg).host
                  /\ parse.out.port = SpecParts(parse.arg).port
             ELSE parse.out.ret = -1
       /\ parse.fn = "parse_config_line" =>
             (parse.out.ret = 0 =>
                 /\ Len(parse.arg) >= 2
                 /\ WellFormedSpec(parse.arg[1])
                 /\ WellFormedSpec(parse.arg[2]))

\* C33 as stated: deactivate_sync_info's lookup and its write happen with
\* no other registry operation in between, and its write never goes to an
\* entry that remove_sync_info has unlinked and freed.
C33_DeactivateAtomic ==
    /\ [][\A c \in Callers :
            rpc[c] = "deact_write" =>
               (sync_store' # sync_store => rpc'[c] = "idle")]_vars
    /\ [](~store_uaf)

\* C34: on every return of sync_single_file each connection the call opened
\* has been closed exactly once and none is left open (a descriptor is never
\* closed twice or closed without having been opened, and the target is only
\* opened after the source); at most two connections are open at any time
C34_ConnectionsClosedOnReturn ==
    /\ fds.source # "bad" /\ fds.target # "bad"
    /\ fds.target # "none" => fds.source # "none"
    /\ Cardinality({f \in DOMAIN fds : fds[f] = "open"}) <= 2
    /\ mpc = "done" => /\ fds.source \in {"none", "closed"}
                       /\ fds.target \in {"none", "closed"}
    /\ mpc \notin {"done", "connect"} => fds.source = "open" /\ fds.target = "open"

\* a call returned after the connect to the target failed: the source
\* connection was opened and is closed, the target never opened
C34_Witness ==
    /\ mpc = "done"
    /\ sync_result = -1
    /\ fds = [source |-> "closed", target |-> "none"]
    /\ xfers = 2

\* C36: when the source replies with a negative size, sync_single_file
\* returns failure and no byte is sent on the target connection in that call,
\* so the target's file is not changed while the call lasts
C36_NoPushAfterSourceError ==
    [][/\ file_size' < 0 => /\ tgtSent' = <<>>
                            /\ tgtStream' = <<>>
                            /\ mpc' = "done"
                            /\ sync_result' = -1
                            /\ tgtFile' = tgtFile
       /\ file_size < 0 /\ file_size' < 0 => tgtFile' = tgtFile]_vars

\* the second call got the error reply and the target has seen its
\* connection close with the file left as it was
C36_Witness ==
    /\ file_size < 0
    /\ mpc = "done"
    /\ tpc = "closed"
    /\ tgtSent = <<>>
    /\ xfers = 2

\* C35 as stated: when handle_add_command returns -1 because
\* start_directory_sync failed, no entry for the command's source key is
\* left in the registry.
C35_FailedAddLeavesNoEntry ==
    [][\A c \in Callers :
         (rpc[c] = "hadd_sync" /\ rpc'[c] = "idle" /\ last'.ret = -1) =>
            \A j \in 1..Len(sync_store') : sync_store'[j].key # rarg[c][1]]_vars

\* C37 as stated: the dispatcher never waits forever for a LIST reply. It
\* would in a state where it is blocked in start_directory_sync's recv, no
\* byte is in flight, and the live file-server has finished the LIST
\* command: nothing but the death of the server ends the wait.
C37_DispatcherNeverWaitsForever ==
    ~(/\ rpc[Dispatcher] = "sync_recv"
      /\ listStream = <<>>
      /\ lpc = "done")

\* C38: under fair scheduling of workers and woken producers, every job
\* whose enqueue_sync_job returned 0 is eventually dequeued and executed
\* (again and again all jobs enqueued so far have been; enqOrder and
\* executed only grow), no job is dequeued or executed twice, and the
\* producers waiting on a full queue eventually leave enqueue_sync_job.
C38_NoLostWakeup ==
    /\ []<>(\A j \in Range(enqOrder) :
               j \in Range(DeqJobs) /\ executed[j] = 1)
    /\ [](\A j \in Jobs :
            /\ executed[j] <= 1
            /\ Cardinality({i \in 1..Len(deqSeq) : deqSeq[i][2] = j}) <= 1)
    /\ []<>(\A p \in Producers : ppc[p] \notin {"waiting", "woken"})

\* both producers have waited on the full queue with both workers asleep or
\* busy, and every job has been enqueued, dequeued and executed
C38_Witness ==
    /\ ~shutdown
    /\ Len(enqOrder) = NumJobs
    /\ \A j \in Jobs : executed[j] = 1
    /\ \E i \in 1..Len(enqOrder) : enqOrder[i] # i
    /\ \A w \in Workers : wpc[w] = "waiting"

\* C39 as stated: with one file-server as source and target, a call of
\* sync_single_file that has not returned is never in a state from which
\* neither it nor the file-server can take a step.
C39_SelfTransferNeverBlocks == mpc \notin {"done", "connect"} => ENABLED SelfNext

\* C40 as stated: when create_thread_pool has set the flag and broadcast
\* after a failed pthread_create, no started worker is blocked in
\* pthread_cond_wait: nothing signals queue_not_empty after that broadcast,
\* so such a worker never exits and the join of it never returns.
C40_FailedCreateJoinsAll ==
    cpc.at = "join" => \A w \in Workers : wpc[w] # "waiting"

====
